---- MODULE Spec2Model ----
(***************************************************************************)
(* ContextLinc: the 11-layer context engine (ContextEngine), the chat      *)
(* route POST /message that drives it, and the context route               *)
(* POST /optimize.                                                         *)
(*                                                                         *)
(* Units.  A relevanceScore of a layer is kept in tenths (0.9 is 9); the   *)
(* aggregate relevanceScore of a window is kept in units of 1/1100         *)
(* (tenths of a score times tenths of a weight, over 11 layers), so that   *)
(* 1.0 is 1100 and 0.5 is 550.  The payload of a layer is kept by the      *)
(* fields the engine's callers read and by the length of its               *)
(* JSON.stringify text, from which tokenCount is estimated.                *)
(***************************************************************************)
EXTENDS Integers, Sequences, FiniteSets, TLC

VARIABLES
    prefs,      \* table user_preferences: user id -> stored preferences
    messages,   \* table messages: session id -> its rows, in insertion order
    files,      \* table files: file id -> row
    now,        \* the wall clock read by new Date()
    reqs,       \* POST /message requests in flight or answered
    first,      \* a direct buildContextWindow call and its window
    second,     \* the same call repeated
    engine,     \* the session and inputs of the repeated call
    scored,     \* a layer list handed to calculateRelevanceScore
    memory,     \* table memory: its rows, in insertion order
    embeddings, \* table embeddings: its rows, in insertion order
    gen,        \* a direct AIService.generateResponse call and its outcome
    job,        \* the file-processing worker's current processFile attempt
    ctx,        \* the last call of a route on stored state, or the worker's handler
    asm,        \* an assembly of buildContextWindow, builder by builder
    storage,    \* bucket CONTEXTLINC_STORAGE: the keys that hold an object
    queue,      \* FILE_PROCESSING_QUEUE: the messages sent to it
    upload,     \* a POST /files/upload request and its results so far
    hook        \* the state of useFileUpload in the page, and its timers

vars == <<prefs, messages, files, now, reqs, first, second, engine, scored,
          memory, embeddings, gen, job, ctx, asm, storage, queue, upload, hook>>

\* the tables of the memory system, and the calls made from outside the chat route
memVars == <<memory, embeddings>>
callVars == <<gen, job, ctx, asm>>

\* the bucket and the queue of the file routes, and the calls of the upload
\* route and of the upload hook of the page
extVars == <<storage, queue, upload, hook>>

\* ------------------------------------------------------------------ bounds

MaxClock == 1
MaxRequests == 2
MaxPerturbed == 2
MaxAttempts == 2
MaxDeliveries == 2
MaxUploads == 3

\* ------------------------------------------------------- strings (JS String)

Min(a, b) == IF a < b THEN a ELSE b

\* String.prototype.includes
includes(s, sub) ==
    \E i \in 1..(Len(s) - Len(sub) + 1) : SubSeq(s, i, i + Len(sub) - 1) = sub

\* String.prototype.startsWith
startsWith(s, pre) == Len(s) >= Len(pre) /\ SubSeq(s, 1, Len(pre)) = pre

\* s.split(' ').length: one more than the number of separators
splitLength(s) == 1 + Cardinality({i \in 1..Len(s) : SubSeq(s, i, i) = " "})

\* s.trim().length (toLowerCase keeps the length)
RECURSIVE trimStart(_)
trimStart(s) ==
    IF Len(s) > 0 /\ SubSeq(s, 1, 1) = " " THEN trimStart(SubSeq(s, 2, Len(s))) ELSE s

RECURSIVE trimEnd(_)
trimEnd(s) ==
    IF Len(s) > 0 /\ SubSeq(s, Len(s), Len(s)) = " "
    THEN trimEnd(SubSeq(s, 1, Len(s) - 1)) ELSE s

trim(s) == trimEnd(trimStart(s))

\* the number of decimal digits of a small count
Digits(n) == IF n < 10 THEN 1 ELSE IF n < 100 THEN 2 ELSE 3

\* the sum of f over a finite set
RECURSIVE SumOver(_, _)
SumOver(S, f) ==
    IF S = {} THEN 0
    ELSE LET x == CHOOSE y \in S : TRUE IN f[x] + SumOver(S \ {x}, f)

\* ------------------------------------------------------------- the inputs

Sessions == {"s1", "s2"}

\* authMiddleware: an anonymous user per X-Session-ID
User(sid) == [id |-> "anon_" \o sid, sessionId |-> sid]

\* a JSON value in the message field of the request body
Str(t) == [kind |-> "string", text |-> t]
NonString == [kind |-> "number", text |-> "42"]
Absent == [kind |-> "absent", text |-> ""]

QueryTexts == {"hi", "summarize this", "", "show code for the context file "}
Queries == {Str(t) : t \in QueryTexts}

\* queries with the words detectPreferredFormat looks for, one in capitals
CueQueryTexts == {"how are you", "give an example", "bullet points please",
                  "list the files", "explain this", "Explain the CODE"}
CueQueries == {Str(t) : t \in CueQueryTexts}

FileIds == {"f1", "f2", "f3"}
FileLists == {<<>>, <<"f1">>, <<"f2">>, <<"f3", "f1">>}

\* the rows of table files: f1, f3 are of s1's user, f2 of s2's user;
\* f3 is a long document, f2 was uploaded and is not processed yet
FilesTable ==
    [f \in FileIds |->
        CASE f = "f1" -> [user_id |-> "anon_s1", session_id |-> "s1",
                          filename |-> "a.txt", file_type |-> "text/plain",
                          processing_status |-> "completed", contentLen |-> 120,
                          embeddings_generated |-> TRUE]
          [] f = "f2" -> [user_id |-> "anon_s2", session_id |-> "s2",
                          filename |-> "b.png", file_type |-> "image/png",
                          processing_status |-> "pending", contentLen |-> -1,
                          embeddings_generated |-> FALSE]
          [] f = "f3" -> [user_id |-> "anon_s1", session_id |-> "s1",
                          filename |-> "c.pdf", file_type |-> "application/pdf",
                          processing_status |-> "completed", contentLen |-> 14000,
                          embeddings_generated |-> TRUE]]

\* what JSON.parse gives for a stored preferences text, with the length of
\* its JSON.stringify text: {} and {"responseStyle":"concise"}
EmptyObject == [responseStyle |-> "", jsonLen |-> 2]
Concise == [responseStyle |-> "concise", jsonLen |-> 27]
PrefRows == {EmptyObject, Concise}

ExternalCalls == {"getUserPreferences", "getSessionStats", "getRecentInteractions",
                  "getFileContext", "getTotalDocumentCount"}

\* ------------------------------------------------- ContextEngine: helpers

\* estimateTokens: Math.ceil(text.length / 4)
estimateTokens(len) == (len + 3) \div 4

\* a slip: a date text whose length depends on the date, as toLocaleString
toLocaleStringLength(t) == 20 + 4 * t

\* new Date().toISOString() is always 24 characters, YYYY-MM-DDTHH:mm:ss.sssZ
toISOStringLength(t) == 24

\* detectPreferredFormat
\* a slip: only the words code, list and explain are looked for
detectPreferredFormatThreeCues(userQuery) ==
    IF includes(userQuery, "code") THEN "code"
    ELSE IF includes(userQuery, "list") THEN "structured"
    ELSE IF includes(userQuery, "explain") THEN "markdown"
    ELSE "text"

detectPreferredFormat(userQuery) ==
    IF includes(userQuery, "code") \/ includes(userQuery, "example") THEN "code"
    ELSE IF includes(userQuery, "list") \/ includes(userQuery, "bullet") THEN "structured"
    ELSE IF includes(userQuery, "explain") \/ includes(userQuery, "how") THEN "markdown"
    ELSE "text"

\* detectIntent
detectIntent(query) ==
    IF includes(query, "context") \/ includes(query, "layer") THEN "context-engineering"
    ELSE IF includes(query, "file") \/ includes(query, "upload") THEN "file-processing"
    ELSE IF includes(query, "explain") \/ includes(query, "how") THEN "explanation"
    ELSE IF includes(query, "help") THEN "assistance"
    ELSE "general"

\* extractEntities
extractEntities(query) ==
    (IF includes(query, "context") THEN <<"context">> ELSE <<>>)
    \o (IF includes(query, "memory") THEN <<"memory">> ELSE <<>>)
    \o (IF includes(query, "file") THEN <<"file">> ELSE <<>>)

\* assessComplexity
assessComplexity(query) ==
    LET wordCount == splitLength(query) IN
    IF wordCount < 5 THEN "simple"
    ELSE IF wordCount < 20 THEN "medium"
    ELSE "complex"

\* analyzeQuery
analyzeQuery(userQuery) ==
    [processedLen |-> Len(trim(userQuery)),
     intent |-> detectIntent(userQuery),
     entities |-> extractEntities(userQuery),
     complexity |-> assessComplexity(userQuery),
     requiresFiles |-> includes(userQuery, "file") \/ includes(userQuery, "upload"),
     expectedResponseType |-> detectPreferredFormat(userQuery)]

\* the rows of table messages of one session, oldest first
SessionMessages(sid) == messages[sid]

\* getUserPreferences: the parsed preferences, {} when there is no row or the
\* query throws
getUserPreferences(user, fails) ==
    IF "getUserPreferences" \in fails THEN EmptyObject ELSE prefs[user.id]

\* getSessionStats: COUNT(*) and MAX(timestamp) of the session's messages,
\* { message_count: 0, last_activity: null } when the query throws
getSessionStats(user, fails) ==
    LET ms == SessionMessages(user.sessionId) IN
    IF "getSessionStats" \in fails \/ Len(ms) = 0
    THEN [message_count |-> 0, last_activity |-> -1]
    ELSE [message_count |-> Len(ms), last_activity |-> ms[Len(ms)].timestamp]

\* getRecentInteractions: the 5 newest messages of the session, [] when the
\* query throws
getRecentInteractions(user, fails) ==
    LET ms == SessionMessages(user.sessionId) IN
    IF "getRecentInteractions" \in fails THEN <<>>
    ELSE SubSeq(ms, IF Len(ms) > 5 THEN Len(ms) - 4 ELSE 1, Len(ms))

\* retrieveRelevantDocuments: "For now, return empty array"
retrieveRelevantDocuments(query) == <<>>

\* getFileContext: the rows of the given ids that belong to the user; []
\* without ids (no query is made) and when the query throws
getFileContext(user, fileIds, fails) ==
    IF Len(fileIds) = 0 THEN {}
    ELSE IF "getFileContext" \in fails THEN {}
    ELSE {f \in DOMAIN files :
            /\ \E i \in 1..Len(fileIds) : fileIds[i] = f
            /\ files[f].user_id = user.id}

\* getTotalDocumentCount: the user's files, 0 when the query throws
getTotalDocumentCount(user, fails) ==
    IF "getTotalDocumentCount" \in fails THEN 0
    ELSE Cardinality({f \in DOMAIN files : files[f].user_id = user.id})

\* the stubs the memory, task and example builders read
getCurrentTasks == <<>>
getShortTermMemory == <<>>
getMediumTermMemory == <<>>
searchLongTermMemory(query) == <<>>
getRelevantExamples(query) == <<>>
getFewShotExamples(query) == <<>>

\* ------------------------------------------ ContextEngine: the 11 builders

\* the lengths of JSON.stringify of the parts of the payloads that do not
\* vary: the whole payload of layers 1, 4, 5, 6, 7, 9, and of layers 2, 3, 8,
\* 10, 11 everything but the values read from the database, the clock and
\* the query
InstructionsJsonLen == 967
UserInfoFixedLen == 171
SessionStatsFixedLen == 35
InteractionFixedLen == 39
KnowledgeFixedLen == 168
FileRowFixedLen == 51
TaskStateJsonLen == 94
MemoryJsonLen == 213
ToolsJsonLen == 806
ExamplesJsonLen == 104
ContextFixedLen == 95
ConstraintsJsonLen == 331
OutputFormatFixedLen == 269
UserQueryFixedLen == 128

\* JSON.stringify of a string without characters to escape, and of null
JsonString(len) == len + 2
JsonNull == 4

\* JSON.stringify of an array whose elements have the given lengths
JsonArray(lens) ==
    2 + SumOver(DOMAIN lens, lens) + (IF Len(lens) > 0 THEN Len(lens) - 1 ELSE 0)

Layer(id, name, status, data, jsonLen, relevanceScore) ==
    [id |-> id, name |-> name, status |-> status, data |-> data,
     tokenCount |-> estimateTokens(jsonLen), relevanceScore |-> relevanceScore]

\* what a builder leaves when it throws
TypeError == [threw |-> "TypeError"]
Threw(x) == "threw" \in DOMAIN x

buildInstructionsLayer ==
    Layer(1, "Instructions", "active", [persona |-> "ContextLinc"],
          InstructionsJsonLen, 10)

buildUserInfoLayer(user, fails) ==
    LET userPrefs == getUserPreferences(user, fails)
        sessionStats == getSessionStats(user, fails)
        history == getRecentInteractions(user, fails)
        responseStyle == IF userPrefs.responseStyle # "" THEN userPrefs.responseStyle
                         ELSE "balanced"
        statsLen == SessionStatsFixedLen + Digits(sessionStats.message_count)
                    + (IF sessionStats.last_activity < 0 THEN JsonNull
                       ELSE JsonString(toISOStringLength(sessionStats.last_activity)))
        historyLen == JsonArray([i \in 1..Len(history) |->
                          InteractionFixedLen + Len(history[i].type)
                          + history[i].contentLen
                          + toISOStringLength(history[i].timestamp)])
    IN  Layer(2, "User Info", "active",
              [preferences |-> userPrefs, sessionStats |-> sessionStats,
               interactionHistory |-> Len(history), responseStyle |-> responseStyle],
              UserInfoFixedLen + Len(user.id) + Len(user.sessionId) + userPrefs.jsonLen
              + statsLen + historyLen + Len(responseStyle),
              8)

\* a slip: the layer is active only when file rows were found
knowledgeIsActiveByRows(retrievedDocs, fileIds, fileContext) ==
    Len(retrievedDocs) > 0 \/ fileContext # {}

\* isActive of buildKnowledgeLayer
knowledgeIsActive(retrievedDocs, fileIds, fileContext) ==
    Len(retrievedDocs) > 0 \/ Len(fileIds) > 0

buildKnowledgeLayer(user, userQuery, fileIds, fails, t) ==
    LET retrievedDocs == retrieveRelevantDocuments(userQuery)
        fileContext == getFileContext(user, fileIds, fails)
        totalDocuments == getTotalDocumentCount(user, fails)
        rowLen == [f \in fileContext |->
                      FileRowFixedLen + Len(files[f].filename) + Len(files[f].file_type)
                      + (IF files[f].contentLen < 0 THEN JsonNull
                         ELSE JsonString(files[f].contentLen))]
        fileContextLen == 2 + SumOver(fileContext, rowLen)
                          + (IF fileContext = {} THEN 0 ELSE Cardinality(fileContext) - 1)
        isActive == knowledgeIsActive(retrievedDocs, fileIds, fileContext)
    IN  Layer(3, "Knowledge", IF isActive THEN "active" ELSE "inactive",
              [retrievedDocuments |-> retrievedDocs, fileContext |-> fileContext,
               totalDocuments |-> totalDocuments],
              KnowledgeFixedLen + fileContextLen + Digits(totalDocuments)
              + toISOStringLength(t),
              IF isActive THEN 9 ELSE 1)

buildTaskGoalState ==
    LET currentTasks == getCurrentTasks
        isActive == Len(currentTasks) > 0
    IN  Layer(4, "Task/Goal State", IF isActive THEN "active" ELSE "inactive",
              [activeTasks |-> currentTasks], TaskStateJsonLen,
              IF isActive THEN 8 ELSE 2)

buildMemoryLayer(userQuery) ==
    LET shortTermMemory == getShortTermMemory
        mediumTermMemory == getMediumTermMemory
        longTermMemory == searchLongTermMemory(userQuery)
    IN  Layer(5, "Memory", "active",
              [shortTerm |-> shortTermMemory, mediumTerm |-> mediumTermMemory,
               longTerm |-> longTermMemory,
               totalItems |-> Len(shortTermMemory) + Len(mediumTermMemory)
                              + Len(longTermMemory)],
              MemoryJsonLen, 7)

\* a slip: the Tools layer reported active with no tool in use
buildToolsLayerInUse ==
    Layer(6, "Tools", "active", [active |-> <<>>, totalTools |-> 4], ToolsJsonLen, 3)

\* status is the literal 'inactive' and tools.active the literal []
buildToolsLayer ==
    Layer(6, "Tools", "inactive", [active |-> <<>>, totalTools |-> 4], ToolsJsonLen, 3)

buildExamplesLayer(userQuery) ==
    LET relevantExamples == getRelevantExamples(userQuery)
        fewShotExamples == getFewShotExamples(userQuery)
        total == Len(fewShotExamples) + Len(relevantExamples)
        isActive == total > 0
    IN  Layer(7, "Examples", IF isActive THEN "active" ELSE "inactive",
              [total |-> total], ExamplesJsonLen, IF isActive THEN 6 ELSE 1)

buildContextLayer(t) ==
    Layer(8, "Context", "active", [sessionStart |-> t, contextSwitches |-> 0],
          ContextFixedLen + toISOStringLength(t), 9)

\* a slip: the Constraints layer pushed while still marked as being built
buildConstraintsLayerPending ==
    Layer(9, "Constraints", "processing", [maxTokens |-> 4096], ConstraintsJsonLen, 5)

buildConstraintsLayer ==
    Layer(9, "Constraints", "active", [maxTokens |-> 4096], ConstraintsJsonLen, 5)

\* userQuery.includes is no function when the query is no string
buildOutputFormatLayer(userQuery) ==
    IF userQuery.kind # "string" THEN TypeError
    ELSE LET detectedFormat == detectPreferredFormat(userQuery.text)
         IN  Layer(10, "Output Format", "active", [preferredFormat |-> detectedFormat],
                   OutputFormatFixedLen + Len(detectedFormat), 6)

buildUserQueryLayer(userQuery, t) ==
    IF userQuery.kind # "string" THEN TypeError
    ELSE LET a == analyzeQuery(userQuery.text)
             entitiesLen == JsonArray([i \in 1..Len(a.entities) |->
                                          JsonString(Len(a.entities[i]))])
         IN  Layer(11, "User Query", "active",
                   [original |-> userQuery.text, intent |-> a.intent,
                    entities |-> a.entities, complexity |-> a.complexity,
                    requiresFiles |-> a.requiresFiles,
                    expectedResponseType |-> a.expectedResponseType, timestamp |-> t],
                   UserQueryFixedLen + Len(userQuery.text) + a.processedLen
                   + Len(a.intent) + entitiesLen + Len(a.complexity)
                   + (IF a.requiresFiles THEN 4 ELSE 5)
                   + Len(a.expectedResponseType) + toISOStringLength(t),
                   10)

\* ------------------------------------------------ ContextEngine: the window

\* a slip: the two weights the wrong way round
activeWeightSwapped(status) == IF status = "active" THEN 1 ELSE 10

\* a slip: only active layers count
activeWeightOrNothing(status) == IF status = "active" THEN 10 ELSE 0

\* the weight of a layer in the aggregate, in tenths: 1 when active, else 0.1
activeWeight(status) == IF status = "active" THEN 10 ELSE 1

\* a slip: the weighted sum is not divided by the number of layers
calculateRelevanceScoreUndivided(layers) ==
    LET weightedScore ==
            SumOver(DOMAIN layers,
                    [i \in DOMAIN layers |->
                        layers[i].relevanceScore * activeWeight(layers[i].status)])
    IN  Min(weightedScore * 11, 1100)

\* calculateRelevanceScore: Math.min(weightedScore / layers.length, 1.0), in
\* units of 1/1100
calculateRelevanceScore(layers) ==
    LET weightedScore ==
            SumOver(DOMAIN layers,
                    [i \in DOMAIN layers |->
                        layers[i].relevanceScore * activeWeight(layers[i].status)])
    IN  IF Len(layers) = 0 THEN 0
        ELSE Min((weightedScore * 11) \div Len(layers), 1100)

\* the layers pushed by buildContextWindow, in order
pushedLayers(user, userQuery, fileIds, fails, t) ==
    << buildInstructionsLayer,
       buildUserInfoLayer(user, fails),
       buildKnowledgeLayer(user, userQuery, fileIds, fails, t),
       buildTaskGoalState,
       buildMemoryLayer(userQuery),
       buildToolsLayer,
       buildExamplesLayer(userQuery),
       buildContextLayer(t),
       buildConstraintsLayer,
       buildOutputFormatLayer(userQuery),
       buildUserQueryLayer(userQuery, t) >>

\* a slip: a layer without data is left out of the window
buildContextWindowOmitting(user, userQuery, fileIds, fails, t) ==
    LET pushed == pushedLayers(user, userQuery, fileIds, fails, t) IN
    IF \E i \in DOMAIN pushed : Threw(pushed[i]) THEN TypeError
    ELSE LET layers == SelectSeq(pushed, LAMBDA l : l.status = "active") IN
         [layers |-> layers,
          activeLayers |-> {layers[i].id : i \in DOMAIN layers},
          relevanceScore |-> calculateRelevanceScore(layers),
          tokenCount |-> SumOver(DOMAIN layers,
                                 [i \in DOMAIN layers |-> layers[i].tokenCount]),
          lastUpdate |-> t]

\* buildContextWindow: the window, or the error of the first builder that throws
buildContextWindow(user, userQuery, fileIds, fails, t) ==
    LET layers == pushedLayers(user, userQuery, fileIds, fails, t) IN
    IF \E i \in DOMAIN layers : Threw(layers[i]) THEN TypeError
    ELSE [layers |-> layers,
          activeLayers |-> {layers[i].id : i \in {j \in DOMAIN layers :
                                                    layers[j].status = "active"}},
          relevanceScore |-> calculateRelevanceScore(layers),
          tokenCount |-> SumOver(DOMAIN layers,
                                 [i \in DOMAIN layers |-> layers[i].tokenCount]),
          lastUpdate |-> t]

\* ------------------------------------------------------- embedding vectors

\* a component of a vector a provider returns: a finite number, NaN or Infinity
Num(n) == [kind |-> "number", value |-> n]
NaN == [kind |-> "NaN", value |-> 0]
Infinity == [kind |-> "Infinity", value |-> 0]

\* what an embedding provider answers: it throws (fetch fails, the status is
\* not ok, the body has no data[0].embedding), or an embedding; an empty
\* array is an embedding the format check lets through
Unavailable == [ok |-> FALSE, embedding |-> <<>>]
Embedding(v) == [ok |-> TRUE, embedding |-> v]

Vectors == { <<Num(3), Num(4)>>, <<>>, <<Num(0), Num(0)>>, <<Num(60), Num(90)>>,
             <<NaN, Num(1)>> }
ProviderReplies == {Unavailable} \cup {Embedding(v) : v \in Vectors}
Providers == {"voyage", "openai"}

\* validateEmbedding: a non-empty array of finite numbers whose magnitude
\* Math.sqrt(sum of squares) is neither 0 nor above 100
validateEmbedding(embedding) ==
    IF Len(embedding) = 0 THEN FALSE
    ELSE IF \E i \in DOMAIN embedding : embedding[i].kind # "number" THEN FALSE
    ELSE LET sumOfSquares ==
                 SumOver(DOMAIN embedding,
                         [i \in DOMAIN embedding |->
                             embedding[i].value * embedding[i].value])
         IN  ~(sumOfSquares = 0 \/ sumOfSquares > 100 * 100)

\* a slip: the primary provider is tried a second time before the fallback
generateSingleEmbeddingRetrying(replies) ==
    IF replies["voyage"].ok
    THEN [calls |-> <<"voyage">>, vector |-> replies["voyage"].embedding]
    ELSE IF replies["openai"].ok
    THEN [calls |-> <<"voyage", "voyage", "openai">>,
          vector |-> replies["openai"].embedding]
    ELSE [calls |-> <<"voyage", "voyage", "openai">>,
          threw |-> "All embedding services unavailable"]

\* EmbeddingService.generateSingleEmbedding: Voyage, and OpenAI when Voyage
\* throws; calls lists the providers called, in order
generateSingleEmbedding(replies) ==
    IF replies["voyage"].ok
    THEN [calls |-> <<"voyage">>, vector |-> replies["voyage"].embedding]
    ELSE IF replies["openai"].ok
    THEN [calls |-> <<"voyage", "openai">>, vector |-> replies["openai"].embedding]
    ELSE [calls |-> <<"voyage", "openai">>,
          threw |-> "All embedding services unavailable"]

\* AIService.generateEmbedding: the same order; the error of the OpenAI
\* fallback goes to the caller as it is
generateEmbedding(replies) ==
    IF replies["voyage"].ok
    THEN [calls |-> <<"voyage">>, vector |-> replies["voyage"].embedding]
    ELSE IF replies["openai"].ok
    THEN [calls |-> <<"voyage", "openai">>, vector |-> replies["openai"].embedding]
    ELSE [calls |-> <<"voyage", "openai">>, threw |-> "OpenAI Embeddings API error"]

\* ------------------------------------------------------------ stored state

UserIds == {User(sid).id : sid \in Sessions}

Message(sid, type, contentLen, t, r) ==
    [user_id |-> User(sid).id, session_id |-> sid, type |-> type,
     contentLen |-> contentLen, timestamp |-> t, req |-> r]

\* a conversation stored earlier in session s1: a user message and its reply
EarlierTurn == << Message("s1", "user", 5, 0, 0), Message("s1", "assistant", 40, 0, 0) >>
NoMessages == [sid \in Sessions |-> <<>>]

NoCall == [made |-> FALSE]

\* the objects of the bucket: one per row of table files, under the id here
StoredObjects == FileIds
NoLayers == <<>>

\* a row of table embeddings as processFile inserts it
EmbeddingRow(fileData, embedding, i) ==
    [user_id |-> fileData.userId, content_id |-> fileData.fileId,
     content_type |-> "file", embedding_vector |-> embedding.vector,
     model_used |-> embedding.model, chunk_index |-> i]

\* a row of table memory: relevance_score in tenths
MemoryRow(userId, sessionId, memoryType, content, summary, relevanceScore) ==
    [user_id |-> userId, session_id |-> sessionId, memory_type |-> memoryType,
     content |-> content, summary |-> summary, relevance_score |-> relevanceScore]

\* storeInMemory: the record of a processed file, in the medium tier
storeInMemory(fileData, fileName) ==
    MemoryRow(fileData.userId, fileData.sessionId, "medium",
              "file_processed " \o fileData.fileId, "Processed file: " \o fileName, 8)

\* what the processing of f1 and f3, completed earlier, has stored
ProcessedFiles == {f \in FileIds : FilesTable[f].processing_status = "completed"}
ProcessedData(f) ==
    [fileId |-> f, userId |-> FilesTable[f].user_id, sessionId |-> FilesTable[f].session_id]
ProcessedMemory ==
    << storeInMemory(ProcessedData("f1"), FilesTable["f1"].filename),
       storeInMemory(ProcessedData("f3"), FilesTable["f3"].filename) >>
ProcessedEmbeddings ==
    << EmbeddingRow(ProcessedData("f1"),
                    [vector |-> <<Num(3), Num(4)>>, model |-> "voyage-multimodal-3"], 0) >>

\* new Date() never goes back
Tick ==
    /\ now < MaxClock
    /\ now' = now + 1
    /\ UNCHANGED <<extVars, memVars, callVars, prefs, messages, files, reqs, first, second, engine, scored>>

\* ------------------------------------- buildContextWindow called directly

\* the stored state before the calls: a fresh database, or one with stored
\* preferences and an earlier turn for session s1
InitBuild ==
    /\ \/ prefs = [u \in UserIds |-> EmptyObject] /\ messages = NoMessages
       \/ prefs = [u \in UserIds |-> IF u = "anon_s1" THEN Concise ELSE EmptyObject]
          /\ messages = [NoMessages EXCEPT !["s1"] = EarlierTurn]
    /\ files = FilesTable
    /\ now = 0
    /\ reqs = <<>>
    /\ engine \in [session : {"s1"}, userQuery : Queries \cup {NonString},
                   fileIds : FileLists]
    /\ first = NoCall
    /\ second = NoCall
    /\ scored = NoLayers
    /\ memory = ProcessedMemory
    /\ embeddings = ProcessedEmbeddings
    /\ gen = NoCall
    /\ job = NoCall
    /\ ctx = NoCall
    /\ asm = NoCall
    /\ storage = StoredObjects
    /\ queue = <<>>
    /\ upload = NoCall
    /\ hook = NoCall

\* one call of buildContextWindow in which the external calls in fails throw
Call(fails) ==
    [made |-> TRUE, fails |-> fails, at |-> now,
     result |-> buildContextWindow(User(engine.session), engine.userQuery,
                                   engine.fileIds, fails, now)]

\* the database queries a build makes: getFileContext makes none without ids
CallsMade(fileIds) ==
    IF Len(fileIds) = 0 THEN ExternalCalls \ {"getFileContext"} ELSE ExternalCalls

\* a slip: getRecentInteractions takes the rows it reads out of the table
statementOfConsuming(call) ==
    CASE call = "getUserPreferences" -> [kind |-> "SELECT", table |-> "user_preferences"]
      [] call = "getSessionStats" -> [kind |-> "SELECT", table |-> "messages"]
      [] call = "getRecentInteractions" -> [kind |-> "DELETE", table |-> "messages"]
      [] call = "getFileContext" -> [kind |-> "SELECT", table |-> "files"]
      [] call = "getTotalDocumentCount" -> [kind |-> "SELECT", table |-> "files"]

\* the SQL statement each database helper of the build prepares, and its
\* table; the memory, task and example helpers prepare none
statementOf(call) ==
    CASE call = "getUserPreferences" -> [kind |-> "SELECT", table |-> "user_preferences"]
      [] call = "getSessionStats" -> [kind |-> "SELECT", table |-> "messages"]
      [] call = "getRecentInteractions" -> [kind |-> "SELECT", table |-> "messages"]
      [] call = "getFileContext" -> [kind |-> "SELECT", table |-> "files"]
      [] call = "getTotalDocumentCount" -> [kind |-> "SELECT", table |-> "files"]

\* D1: a table is written by a build when a statement on it that is no
\* SELECT ran to its end
Written(table, fileIds, fails) ==
    \E call \in CallsMade(fileIds) \ fails :
        statementOf(call).table = table /\ statementOf(call).kind # "SELECT"

\* the tables after the statements of a build ran, bound to the user's id
\* and session: a SELECT leaves every row, any other statement the rows of
\* other users only
prefsAfterBuild(user, fileIds, fails) ==
    IF Written("user_preferences", fileIds, fails)
    THEN [prefs EXCEPT ![user.id] = EmptyObject] ELSE prefs

messagesAfterBuild(user, fileIds, fails) ==
    IF Written("messages", fileIds, fails)
    THEN [messages EXCEPT ![user.sessionId] = <<>>] ELSE messages

filesAfterBuild(user, fileIds, fails) ==
    IF Written("files", fileIds, fails)
    THEN [f \in {g \in DOMAIN files : files[g].user_id # user.id} |-> files[f]]
    ELSE files

FirstCall ==
    /\ ~first.made
    /\ \E fails \in SUBSET CallsMade(engine.fileIds) :
          /\ first' = Call(fails)
          /\ prefs' = prefsAfterBuild(User(engine.session), engine.fileIds, fails)
          /\ messages' = messagesAfterBuild(User(engine.session), engine.fileIds, fails)
          /\ files' = filesAfterBuild(User(engine.session), engine.fileIds, fails)
    /\ UNCHANGED <<extVars, memVars, callVars, now, reqs, second, engine, scored>>

\* the same call again, nothing stored in between
SecondCall ==
    /\ first.made
    /\ ~second.made
    /\ \E fails \in SUBSET CallsMade(engine.fileIds) :
          /\ second' = Call(fails)
          /\ prefs' = prefsAfterBuild(User(engine.session), engine.fileIds, fails)
          /\ messages' = messagesAfterBuild(User(engine.session), engine.fileIds, fails)
          /\ files' = filesAfterBuild(User(engine.session), engine.fileIds, fails)
    /\ UNCHANGED <<extVars, memVars, callVars, now, reqs, first, engine, scored>>

NextBuild == FirstCall \/ SecondCall \/ Tick

SpecBuild == InitBuild /\ [][NextBuild]_vars

\* ------------------------- buildContextWindow, one awaited builder at a time

\* const layers = []; let totalTokens = 0
NoAssembly == [made |-> FALSE, threw |-> FALSE, pc |-> 1, layers |-> <<>>, totalTokens |-> 0]

InitAssembly ==
    /\ \/ prefs = [u \in UserIds |-> EmptyObject] /\ messages = NoMessages
       \/ prefs = [u \in UserIds |-> IF u = "anon_s1" THEN Concise ELSE EmptyObject]
          /\ messages = [NoMessages EXCEPT !["s1"] = EarlierTurn]
    /\ files = FilesTable
    /\ now = 0
    /\ reqs = <<>>
    /\ engine \in [session : {"s1"}, userQuery : Queries \cup CueQueries \cup {NonString},
                   fileIds : FileLists]
    /\ first = NoCall
    /\ second = NoCall
    /\ scored = NoLayers
    /\ memory = ProcessedMemory
    /\ embeddings = ProcessedEmbeddings
    /\ gen = NoCall
    /\ job = NoCall
    /\ ctx = NoCall
    /\ asm = NoAssembly
    /\ storage = StoredObjects
    /\ queue = <<>>
    /\ upload = NoCall
    /\ hook = NoCall

\* the database queries the builder of a layer makes: three by the User Info
\* builder, two by the Knowledge builder, none by the others
CallsOf(layerId, fileIds) ==
    CASE layerId = 2 -> {"getUserPreferences", "getSessionStats", "getRecentInteractions"}
      [] layerId = 3 -> CallsMade(fileIds) \ {"getUserPreferences", "getSessionStats",
                                               "getRecentInteractions"}
      [] OTHER -> {}

\* const layer = await this.build...Layer(...); layers.push(layer);
\* totalTokens += layer.tokenCount: the builder of the next layer is awaited
\* and what it returns is pushed; a builder that throws ends the call
PushLayer ==
    /\ ~asm.threw
    /\ asm.pc \in 1..11
    /\ \E fails \in SUBSET CallsOf(asm.pc, engine.fileIds) :
          LET layer == pushedLayers(User(engine.session), engine.userQuery,
                                    engine.fileIds, fails, now)[asm.pc]
          IN  /\ asm' = IF Threw(layer) THEN [asm EXCEPT !.threw = TRUE]
                        ELSE [asm EXCEPT !.pc = @ + 1,
                                         !.layers = Append(@, layer),
                                         !.totalTokens = @ + layer.tokenCount]
              /\ prefs' = prefsAfterBuild(User(engine.session), engine.fileIds, fails)
              /\ messages' = messagesAfterBuild(User(engine.session), engine.fileIds, fails)
              /\ files' = filesAfterBuild(User(engine.session), engine.fileIds, fails)
    /\ UNCHANGED <<extVars, memVars, gen, job, ctx, now, reqs, first, second, engine, scored>>

\* return { layers, activeLayers, relevanceScore, tokenCount, lastUpdate }
ReturnWindow ==
    /\ ~asm.threw
    /\ ~asm.made
    /\ asm.pc = 12
    /\ asm' = [asm EXCEPT !.made = TRUE] @@
              [window |->
                  [layers |-> asm.layers,
                   activeLayers |-> {asm.layers[i].id :
                                       i \in {j \in DOMAIN asm.layers :
                                                 asm.layers[j].status = "active"}},
                   relevanceScore |-> calculateRelevanceScore(asm.layers),
                   tokenCount |-> asm.totalTokens,
                   lastUpdate |-> now]]
    /\ UNCHANGED <<extVars, memVars, gen, job, ctx, prefs, messages, files, now, reqs, first,
                   second, engine, scored>>

NextAssembly == PushLayer \/ ReturnWindow \/ Tick

SpecAssembly == InitAssembly /\ [][NextAssembly]_vars

\* ------------------------------------------------ AIService.generateResponse

\* the backend generateResponse routes a model name to
backendOf(model) ==
    IF startsWith(model, "gpt-") THEN "openai"
    ELSE IF startsWith(model, "claude-") THEN "anthropic"
    ELSE "unsupported"

\* what a backend call gives: it throws (fetch fails, the status is not ok,
\* the body is malformed), or content and the model id the backend reports
Failed == [ok |-> FALSE, contentLen |-> 0, model |-> ""]
Reply(contentLen, model) == [ok |-> TRUE, contentLen |-> contentLen, model |-> model]

Backends == {"openai", "anthropic"}

\* a slip: the cap Math.min(confidence, 1.0) is left out
calculateConfidenceUncapped(response, contextWindow) ==
    5500 + contextWindow.relevanceScore * 3
    + Cardinality(contextWindow.activeLayers) * 200
    + (IF response.contentLen > 500 THEN 1100 ELSE 0)
    + (IF response.contentLen > 1000 THEN 1100 ELSE 0)
    + (IF includes(response.model, "gpt-4") THEN 1100 ELSE 0)
    + (IF includes(response.model, "claude-3") THEN 1100 ELSE 0)

\* calculateConfidence, in units of 1/11000: 0.5 + relevanceScore * 0.3
\* + (layerCount / 11) * 0.2 + 0.1 for each of length > 500, length > 1000,
\* a gpt-4 model, a claude-3 model; capped at 1.0
calculateConfidence(response, contextWindow) ==
    Min(5500 + contextWindow.relevanceScore * 3
        + Cardinality(contextWindow.activeLayers) * 200
        + (IF response.contentLen > 500 THEN 1100 ELSE 0)
        + (IF response.contentLen > 1000 THEN 1100 ELSE 0)
        + (IF includes(response.model, "gpt-4") THEN 1100 ELSE 0)
        + (IF includes(response.model, "claude-3") THEN 1100 ELSE 0),
        11000)

\* a slip: when the routed backend fails, the other backend is tried
generateResponseWithFallback(contextWindow, optionsModel, replies) ==
    LET model == IF optionsModel = "" THEN "gpt-4" ELSE optionsModel
        backend == backendOf(model)
        other == IF backend = "openai" THEN "anthropic" ELSE "openai"
    IN  IF backend = "unsupported"
        THEN [threw |-> "AI generation failed", message |-> "Unsupported model",
              calls |-> <<>>]
        ELSE IF replies[backend].ok
        THEN [contentLen |-> replies[backend].contentLen,
              model |-> replies[backend].model, backend |-> backend,
              calls |-> <<backend>>,
              confidence |-> calculateConfidence(replies[backend], contextWindow)]
        ELSE IF replies[other].ok
        THEN [contentLen |-> replies[other].contentLen,
              model |-> replies[other].model, backend |-> other,
              calls |-> <<backend, other>>,
              confidence |-> calculateConfidence(replies[other], contextWindow)]
        ELSE [threw |-> "AI generation failed", message |-> "API error",
              calls |-> <<backend, other>>]

\* generateResponse: the reply of the routed backend with the confidence
\* computed for it, or the error thrown when the model is unsupported or the
\* backend call fails; calls lists the backends called, in order
generateResponse(contextWindow, optionsModel, replies) ==
    LET model == IF optionsModel = "" THEN "gpt-4" ELSE optionsModel
        backend == backendOf(model)
    IN  IF backend = "unsupported"
        THEN [threw |-> "AI generation failed", message |-> "Unsupported model",
              calls |-> <<>>]
        ELSE IF ~replies[backend].ok
        THEN [threw |-> "AI generation failed", message |-> "API error",
              calls |-> <<backend>>]
        ELSE [contentLen |-> replies[backend].contentLen,
              model |-> replies[backend].model, backend |-> backend,
              calls |-> <<backend>>,
              confidence |-> calculateConfidence(replies[backend], contextWindow)]

\* ----------------------------------------------------- POST /chat/message

\* request bodies: a message with a long attached document; no message and
\* no files; a message that is no string; a model no backend serves
Bodies ==
    { [message |-> Str("summarize this"), files |-> <<"f3">>, model |-> "gpt-4"],
      [message |-> Absent, files |-> <<>>, model |-> "gpt-4"],
      [message |-> NonString, files |-> <<>>, model |-> "gpt-4"],
      [message |-> Str("hi"), files |-> <<>>, model |-> "llama-2"] }

\* the backends as the chat route meets them: both answer, or both fail
RouteReplies ==
    { [b \in Backends |-> Reply(40, IF b = "openai" THEN "gpt-4-0613"
                                     ELSE "claude-3-opus-20240229")],
      [b \in Backends |-> Failed] }
TargetSizes == {50}

Requests == 1..MaxRequests

Idle == [pc |-> "idle"]

\* !message: undefined and "" are falsy
Falsy(message) == message.kind = "absent" \/ (message.kind = "string" /\ message.text = "")

\* the answer is sent and the locals of the handler are gone
Answered(q, status, step) ==
    [q EXCEPT !.pc = "answered", !.status = status, !.failedAt = step,
              !.body = [message |-> Absent, files |-> <<>>, model |-> ""],
              !.window = NoCall, !.aiResponse = NoCall]

\* a slip: the state commit also runs when the handler failed
CaughtThenCommitted(q, step) ==
    Answered([q EXCEPT !.trace = Append(@, "state_committed")], 500, step)

\* the catch block of a handler: 500
Caught(q, step) == Answered(q, 500, step)

Arrived(route, sid, body, targetSize, pc, status) ==
    [route |-> route, pc |-> pc, status |-> status, session |-> sid, body |-> body,
     targetSize |-> targetSize, trace |-> <<>>, failedAt |-> "", window |-> NoCall,
     aiResponse |-> NoCall, result |-> NoCall]

\* requests are numbered in the order they arrive
NextToArrive(r) == reqs[r].pc = "idle" /\ \A p \in Requests : p < r => reqs[p].pc # "idle"

\* POST /message arrives; without a message and without files it is answered 400
Receive(r) ==
    /\ NextToArrive(r)
    /\ \E sid \in Sessions, body \in Bodies :
          reqs' = [reqs EXCEPT ![r] =
                      IF Falsy(body.message) /\ Len(body.files) = 0
                      THEN Arrived("message", sid, body, 0, "answered", 400)
                      ELSE Arrived("message", sid, body, 0, "storeUser", 0)]
    /\ UNCHANGED <<extVars, memVars, callVars, prefs, messages, files, now, first, second, engine, scored>>

\* storeMessage of the user message; content is NOT NULL, so the insert of a
\* request without a message throws, as does any insert the database fails
StoreUserMessage(r) ==
    LET q == reqs[r] IN
    /\ q.pc = "storeUser"
    /\ \E dbOk \in BOOLEAN :
          IF dbOk /\ q.body.message.kind # "absent"
          THEN /\ messages' = [messages EXCEPT ![q.session] = Append(@,
                      Message(q.session, "user", Len(q.body.message.text), now, r))]
               /\ reqs' = [reqs EXCEPT ![r] = [q EXCEPT !.pc = "build",
                              !.trace = Append(@, "user_stored")]]
          ELSE /\ reqs' = [reqs EXCEPT ![r] = Caught(q, "storeUser")]
               /\ UNCHANGED messages
    /\ UNCHANGED <<extVars, memVars, callVars, prefs, files, now, first, second, engine, scored>>

\* contextEngine.buildContextWindow(message, files)
BuildWindow(r) ==
    LET q == reqs[r] IN
    /\ q.pc = "build"
    /\ \E fails \in {{}, CallsMade(q.body.files)} :
          LET w == buildContextWindow(User(q.session), q.body.message, q.body.files,
                                      fails, now)
          IN  /\ reqs' = [reqs EXCEPT ![r] =
                             IF Threw(w) THEN Caught(q, "build")
                             ELSE [q EXCEPT !.pc = "generate", !.window = w,
                                            !.trace = Append(@, "window_built")]]
              /\ prefs' = prefsAfterBuild(User(q.session), q.body.files, fails)
              /\ messages' = messagesAfterBuild(User(q.session), q.body.files, fails)
              /\ files' = filesAfterBuild(User(q.session), q.body.files, fails)
    /\ UNCHANGED <<extVars, memVars, callVars, now, first, second, engine, scored>>

\* aiService.generateResponse(contextWindow, { model, ... })
GenerateReply(r) ==
    LET q == reqs[r] IN
    /\ q.pc = "generate"
    /\ \E replies \in RouteReplies :
          LET a == generateResponse(q.window, q.body.model, replies)
          IN  reqs' = [reqs EXCEPT ![r] =
                          IF Threw(a) THEN Caught(q, "generate")
                          ELSE [q EXCEPT !.pc = "storeAssistant", !.aiResponse = a,
                                         !.trace = Append(@, "reply_generated")]]
    /\ UNCHANGED <<extVars, memVars, callVars, prefs, messages, files, now, first, second, engine, scored>>

\* storeMessage of the assistant message
StoreAssistantMessage(r) ==
    LET q == reqs[r] IN
    /\ q.pc = "storeAssistant"
    /\ \E dbOk \in BOOLEAN :
          IF dbOk
          THEN /\ messages' = [messages EXCEPT ![q.session] = Append(@,
                      Message(q.session, "assistant", q.aiResponse.contentLen, now, r))]
               /\ reqs' = [reqs EXCEPT ![r] = [q EXCEPT !.pc = "commit",
                              !.trace = Append(@, "assistant_stored")]]
          ELSE /\ reqs' = [reqs EXCEPT ![r] = Caught(q, "storeAssistant")]
               /\ UNCHANGED messages
    /\ UNCHANGED <<extVars, memVars, callVars, prefs, files, now, first, second, engine, scored>>

\* contextEngine.updateContextState(aiResponse), whose three updates store
\* nothing, and the answer 200
UpdateContextState(r) ==
    LET q == reqs[r] IN
    /\ q.pc = "commit"
    /\ reqs' = [reqs EXCEPT ![r] =
                   Answered([q EXCEPT !.trace = Append(@, "state_committed")], 200, "")]
    /\ UNCHANGED <<extVars, memVars, callVars, prefs, messages, files, now, first, second, engine, scored>>

\* ---------------------------------------------------- POST /context/optimize

\* optimizeContext: return {}
optimizeContext(targetSize, preserveLayers) == [empty |-> TRUE]

\* POST /optimize arrives
ReceiveOptimize(r) ==
    /\ NextToArrive(r)
    /\ \E sid \in Sessions, targetSize \in TargetSizes :
          reqs' = [reqs EXCEPT ![r] =
                      Arrived("optimize", sid, [message |-> Absent, files |-> <<>>,
                                                model |-> ""],
                              targetSize, "optimize", 0)]
    /\ UNCHANGED <<extVars, memVars, callVars, prefs, messages, files, now, first, second, engine, scored>>

\* the route calls optimizeContext and answers success: true with the
\* optimizedSize field of the result
Optimize(r) ==
    LET q == reqs[r]
        optimizationResult == optimizeContext(q.targetSize, {})
    IN  /\ q.pc = "optimize"
        /\ reqs' = [reqs EXCEPT ![r] = [q EXCEPT !.pc = "answered", !.status = 200,
                       !.result = [success |-> TRUE,
                                   hasOptimizedSize |->
                                       "optimizedSize" \in DOMAIN optimizationResult,
                                   hasPreservedContent |->
                                       "preservedContent" \in DOMAIN optimizationResult]]]
        /\ UNCHANGED <<extVars, memVars, callVars, prefs, messages, files, now, first, second, engine, scored>>

Init ==
    /\ prefs = [u \in UserIds |-> EmptyObject]
    /\ messages = NoMessages
    /\ files = FilesTable
    /\ now = 0
    /\ reqs = [r \in Requests |-> Idle]
    /\ first = NoCall
    /\ second = NoCall
    /\ engine = [session |-> "s1", userQuery |-> Str(""), fileIds |-> <<>>]
    /\ scored = NoLayers
    /\ memory = <<>>
    /\ embeddings = <<>>
    /\ gen = NoCall
    /\ job = NoCall
    /\ ctx = NoCall
    /\ asm = NoCall
    /\ storage = StoredObjects
    /\ queue = <<>>
    /\ upload = NoCall
    /\ hook = NoCall

Next ==
    \/ \E r \in Requests : Receive(r)
    \/ \E r \in Requests : StoreUserMessage(r)
    \/ \E r \in Requests : BuildWindow(r)
    \/ \E r \in Requests : GenerateReply(r)
    \/ \E r \in Requests : StoreAssistantMessage(r)
    \/ \E r \in Requests : UpdateContextState(r)
    \/ \E r \in Requests : ReceiveOptimize(r)
    \/ \E r \in Requests : Optimize(r)

Spec == Init /\ [][Next]_vars

\* ------------------------------- calculateRelevanceScore on any layer list

ScoreValues == {0, 3, 10}

\* the layers of a window as the engine builds it, and the two extremes
BuiltLayers == pushedLayers(User("s1"), Str("hi"), <<>>, {}, 0)
ExtremeLayers(status, score) ==
    [i \in 1..11 |-> [BuiltLayers[i] EXCEPT !.status = status, !.relevanceScore = score]]
BaseLayers == {BuiltLayers, ExtremeLayers("active", 10), ExtremeLayers("inactive", 0),
               ExtremeLayers("inactive", 10)}

Score(base, layers) ==
    [base |-> base, layers |-> layers, relevanceScore |-> calculateRelevanceScore(layers)]

InitScore ==
    /\ prefs = [u \in UserIds |-> EmptyObject]
    /\ messages = NoMessages
    /\ files = FilesTable
    /\ now = 0
    /\ reqs = <<>>
    /\ first = NoCall
    /\ second = NoCall
    /\ engine = [session |-> "s1", userQuery |-> Str("hi"), fileIds |-> <<>>]
    /\ \E base \in BaseLayers : scored = Score(base, base)
    /\ memory = <<>>
    /\ embeddings = <<>>
    /\ gen = NoCall
    /\ job = NoCall
    /\ ctx = NoCall
    /\ asm = NoCall
    /\ storage = StoredObjects
    /\ queue = <<>>
    /\ upload = NoCall
    /\ hook = NoCall

\* one layer gets another status and score, and the aggregate is computed
Perturb ==
    \E i \in 1..11, status \in {"active", "inactive"}, score \in ScoreValues :
        LET layers == [scored.layers EXCEPT ![i] =
                          [@ EXCEPT !.status = status, !.relevanceScore = score]]
        IN  /\ Cardinality({j \in 1..11 : layers[j] # scored.base[j]}) <= MaxPerturbed
            /\ scored' = Score(scored.base, layers)
            /\ UNCHANGED <<extVars, memVars, callVars, prefs, messages, files, now, reqs, first, second, engine>>

NextScore == Perturb

SpecScore == InitScore /\ [][NextScore]_vars

\* ----------------------- AIService and EmbeddingService called directly

\* the fields of a window generateResponse computes with
RelevanceValues == {0, 550, 557, 1100}
GenWindows ==
    {[relevanceScore |-> s, activeLayers |-> 1..n] : s \in RelevanceValues, n \in 0..11}

\* options.model: names of both families, names no backend serves, and none
Models == {"gpt-4", "gpt-3.5-turbo", "claude-3-opus", "claude-2", "llama-2",
           "my-gpt-4", ""}

\* the replies of a backend: a failure, or content of some length under the
\* model id the backend reports
BackendReplies ==
    {Failed} \cup {Reply(n, m) : n \in {40, 501, 1001},
                                 m \in {"gpt-4-0613", "gpt-3.5-turbo-0125",
                                        "claude-3-opus-20240229", "claude-2.1"}}

InitGenerate ==
    /\ prefs = [u \in UserIds |-> EmptyObject]
    /\ messages = NoMessages
    /\ files = FilesTable
    /\ now = 0
    /\ reqs = <<>>
    /\ first = NoCall
    /\ second = NoCall
    /\ engine = [session |-> "s1", userQuery |-> Str("hi"), fileIds |-> <<>>]
    /\ scored = NoLayers
    /\ memory = <<>>
    /\ embeddings = <<>>
    /\ gen \in [made : {FALSE}, op : {"generateResponse"},
                 contextWindow : GenWindows, model : Models]
             \cup [made : {FALSE}, op : {"generateEmbedding", "generateSingleEmbedding"},
                    contextWindow : {NoCall}, model : {""}]
    /\ job = NoCall
    /\ ctx = NoCall
    /\ asm = NoCall
    /\ storage = StoredObjects
    /\ queue = <<>>
    /\ upload = NoCall
    /\ hook = NoCall

\* one call of generateResponse against backends that answer as replies says
Generate ==
    /\ ~gen.made
    /\ gen.op = "generateResponse"
    /\ \E replies \in [Backends -> BackendReplies] :
          gen' = [gen EXCEPT !.made = TRUE] @@
                 [replies |-> replies,
                  result |-> generateResponse(gen.contextWindow, gen.model, replies)]
    /\ UNCHANGED <<extVars, memVars, prefs, messages, files, now, reqs, first, second, engine,
                   scored, job, ctx, asm>>

\* one call of AIService.generateEmbedding
Embed ==
    /\ ~gen.made
    /\ gen.op = "generateEmbedding"
    /\ \E replies \in [Providers -> ProviderReplies] :
          gen' = [gen EXCEPT !.made = TRUE] @@
                 [replies |-> replies, result |-> generateEmbedding(replies)]
    /\ UNCHANGED <<extVars, memVars, prefs, messages, files, now, reqs, first, second, engine,
                   scored, job, ctx, asm>>

\* one call of EmbeddingService.generateSingleEmbedding
EmbedSingle ==
    /\ ~gen.made
    /\ gen.op = "generateSingleEmbedding"
    /\ \E replies \in [Providers -> ProviderReplies] :
          gen' = [gen EXCEPT !.made = TRUE] @@
                 [replies |-> replies, result |-> generateSingleEmbedding(replies)]
    /\ UNCHANGED <<extVars, memVars, prefs, messages, files, now, reqs, first, second, engine,
                   scored, job, ctx, asm>>

NextGenerate == Generate \/ Embed \/ EmbedSingle

SpecGenerate == InitGenerate /\ [][NextGenerate]_vars

\* -------------------------------------- the file-processing worker: processFile

\* what processor.processFile gives for the stored object: it throws, or the
\* extracted text (its length), the chunks of it and the length of the JSON
\* text of the whole result; a text of 8000 characters or more gets no
\* embedding of its own
ProcessingResults ==
    { [ok |-> FALSE, extractedTextLen |-> 0, chunks |-> 0, jsonLen |-> 0],
      [ok |-> TRUE, extractedTextLen |-> 300, chunks |-> 1, jsonLen |-> 900],
      [ok |-> TRUE, extractedTextLen |-> 9000, chunks |-> 1, jsonLen |-> 19000] }

\* the worker between two attempts
IdleJob ==
    [pc |-> "idle", fileData |-> [fileId |-> "", userId |-> "", sessionId |-> ""],
     attempt |-> 0, extracted |-> CHOOSE x \in ProcessingResults : ~x.ok,
     pending |-> <<>>, results |-> <<>>, log |-> <<>>, stored |-> 0, error |-> ""]

\* the catch block of processFile: the error is kept to be rethrown
Failing(j, error) == [j EXCEPT !.pc = "markFailed", !.error = error]

\* a queue message (or a POST /process body) for a file that waits for
\* processing or whose last attempt failed reaches processFile
StartProcessFile ==
    /\ job.pc \in {"idle", "done", "thrown"}
    /\ job.attempt < MaxAttempts
    /\ \E f \in DOMAIN files :
          /\ files[f].processing_status \in {"pending", "failed"}
          /\ job' = [IdleJob EXCEPT !.pc = "markProcessing",
                        !.attempt = job.attempt + 1,
                        !.fileData = [fileId |-> f, userId |-> files[f].user_id,
                                      sessionId |-> files[f].session_id]]
    /\ UNCHANGED <<extVars, memVars, prefs, messages, files, now, reqs, first, second, engine,
                   scored, gen, ctx, asm>>

\* UPDATE files SET processing_status = 'processing'
MarkProcessing ==
    /\ job.pc = "markProcessing"
    /\ \E dbOk \in BOOLEAN :
          IF dbOk
          THEN /\ files' = [files EXCEPT ![job.fileData.fileId].processing_status =
                                "processing"]
               /\ job' = [job EXCEPT !.pc = "getObject"]
          ELSE /\ job' = Failing(job, "D1 error")
               /\ UNCHANGED files
    /\ UNCHANGED <<extVars, memVars, prefs, messages, now, reqs, first, second, engine,
                   scored, gen, ctx, asm>>

\* CONTEXTLINC_STORAGE.get(r2Key): the object, or null
GetObject ==
    /\ job.pc = "getObject"
    /\ \E fileObject \in {"object", "null"} :
          job' = IF fileObject = "null" THEN Failing(job, "File not found in storage")
                 ELSE [job EXCEPT !.pc = "extract"]
    /\ UNCHANGED <<extVars, memVars, prefs, messages, files, now, reqs, first, second, engine,
                   scored, gen, ctx, asm>>

\* the texts generateEmbeddings embeds, by chunkIndex: -1 is the full text
TextsToEmbed(processingResult) ==
    (IF processingResult.extractedTextLen < 8000 THEN <<-1>> ELSE <<>>)
    \o [i \in 1..processingResult.chunks |-> i - 1]

\* processor.processFile(fileObject, fileType, fileName)
Extract ==
    /\ job.pc = "extract"
    /\ \E processingResult \in ProcessingResults :
          job' = IF ~processingResult.ok THEN Failing(job, "processing error")
                 ELSE [job EXCEPT !.pc = "embed", !.extracted = processingResult,
                                  !.pending = TextsToEmbed(processingResult)]
    /\ UNCHANGED <<extVars, memVars, prefs, messages, files, now, reqs, first, second, engine,
                   scored, gen, ctx, asm>>

\* generateEmbeddings, one text at a time: the vector generateSingleEmbedding
\* returns is pushed under the model name voyage-multimodal-3; a failure for
\* the full text fails the whole call, a failure for a chunk is skipped
EmbedTextWith(answers) ==
    /\ job.pc = "embed"
    /\ job.pending # <<>>
    /\ \E replies \in answers :
          LET chunkIndex == Head(job.pending)
              e == generateSingleEmbedding(replies)
              logged == Append(job.log, [chunkIndex |-> chunkIndex,
                                         primary |-> replies["voyage"],
                                         calls |-> e.calls])
          IN  job' = IF Threw(e) /\ chunkIndex = -1
                     THEN Failing([job EXCEPT !.log = logged],
                                  "Failed to generate embeddings")
                     ELSE [job EXCEPT
                             !.log = logged,
                             !.pending = Tail(@),
                             !.results = IF Threw(e) THEN @
                                         ELSE Append(@, [vector |-> e.vector,
                                                         model |-> "voyage-multimodal-3",
                                                         chunkIndex |-> chunkIndex])]
    /\ UNCHANGED <<extVars, memVars, prefs, messages, files, now, reqs, first, second, engine,
                   scored, gen, ctx, asm>>

\* the providers answer with any vector, or not at all
EmbedText == EmbedTextWith([Providers -> ProviderReplies])

\* UPDATE files SET processing_status = 'completed', extracted_content = ...,
\* embeddings_generated = TRUE, once generateEmbeddings has returned
MarkCompleted ==
    /\ job.pc = "embed"
    /\ job.pending = <<>>
    /\ \E dbOk \in BOOLEAN :
          IF dbOk
          THEN /\ files' = [files EXCEPT ![job.fileData.fileId] =
                                [@ EXCEPT !.processing_status = "completed",
                                          !.contentLen = job.extracted.jsonLen,
                                          !.embeddings_generated = TRUE]]
               /\ job' = [job EXCEPT !.pc = "storeEmbeddings"]
          ELSE /\ job' = Failing(job, "D1 error")
               /\ UNCHANGED files
    /\ UNCHANGED <<extVars, memVars, prefs, messages, now, reqs, first, second, engine,
                   scored, gen, ctx, asm>>

\* INSERT INTO embeddings, one row per generated embedding, numbered by
\* its place in the list; without embeddings the loop is skipped
StoreEmbedding ==
    /\ job.pc = "storeEmbeddings"
    /\ job.stored < Len(job.results)
    /\ \E dbOk \in BOOLEAN :
          IF dbOk
          THEN /\ embeddings' = Append(embeddings,
                      EmbeddingRow(job.fileData, job.results[job.stored + 1], job.stored))
               /\ job' = [job EXCEPT !.stored = @ + 1]
          ELSE /\ job' = Failing(job, "D1 error")
               /\ UNCHANGED embeddings
    /\ UNCHANGED <<extVars, memory, prefs, messages, files, now, reqs, first, second, engine,
                   scored, gen, ctx, asm>>

\* storeInMemory(env, userId, sessionId, {type: 'file_processed', ...}), the
\* last step of a successful attempt
StoreInMemory ==
    /\ job.pc = "storeEmbeddings"
    /\ job.stored = Len(job.results)
    /\ \E dbOk \in BOOLEAN :
          IF dbOk
          THEN /\ memory' = Append(memory,
                      storeInMemory(job.fileData, files[job.fileData.fileId].filename))
               /\ job' = [job EXCEPT !.pc = "done"]
          ELSE /\ job' = Failing(job, "D1 error")
               /\ UNCHANGED memory
    /\ UNCHANGED <<extVars, embeddings, prefs, messages, files, now, reqs, first, second, engine,
                   scored, gen, ctx, asm>>

\* the catch block: UPDATE files SET processing_status = 'failed', then the
\* error is thrown to the caller (the error of the update, when it throws)
MarkFailed ==
    /\ job.pc = "markFailed"
    /\ \E dbOk \in BOOLEAN :
          /\ files' = IF dbOk
                      THEN [files EXCEPT ![job.fileData.fileId].processing_status =
                               "failed"]
                      ELSE files
          /\ job' = [job EXCEPT !.pc = "thrown",
                                !.error = IF dbOk THEN @ ELSE "D1 error"]
    /\ UNCHANGED <<extVars, memVars, prefs, messages, now, reqs, first, second, engine,
                   scored, gen, ctx, asm>>

InitWorker ==
    /\ prefs = [u \in UserIds |-> EmptyObject]
    /\ messages = NoMessages
    /\ files = FilesTable
    /\ now = 0
    /\ reqs = <<>>
    /\ first = NoCall
    /\ second = NoCall
    /\ engine = [session |-> "s1", userQuery |-> Str("hi"), fileIds |-> <<>>]
    /\ scored = NoLayers
    /\ memory = ProcessedMemory
    /\ embeddings = ProcessedEmbeddings
    /\ gen = NoCall
    /\ job = IdleJob
    /\ ctx = NoCall
    /\ asm = NoCall
    /\ storage = StoredObjects
    /\ queue = <<>>
    /\ upload = NoCall
    /\ hook = NoCall

NextWorker ==
    \/ StartProcessFile
    \/ MarkProcessing
    \/ GetObject
    \/ Extract
    \/ EmbedText
    \/ MarkCompleted
    \/ StoreEmbedding
    \/ StoreInMemory
    \/ MarkFailed

SpecWorker == InitWorker /\ [][NextWorker]_vars

\* ------------------------- the worker's handlers: queue(batch) and POST /process

\* the batches the queue delivers first: the message of the upload of f2, and
\* with it the message of f1, processed before and delivered once more
Batches == { <<"f2">>, <<"f2", "f1">>, <<"f1", "f2">> }

\* the providers answer with a plain vector, or neither answers
PlainAnswers ==
    { [p \in Providers |-> IF p = "voyage" THEN Embedding(<<Num(3), Num(4)>>)
                           ELSE Unavailable],
      [p \in Providers |-> Unavailable] }

\* no handler of the worker is running
IdleHandler ==
    [pc |-> "idle", caller |-> "", batch |-> <<>>, i |-> 1, settled |-> <<>>,
     retried |-> <<>>, deliveries |-> 0]

\* message.body of the message of a file
FileData(f) ==
    [fileId |-> f, userId |-> files[f].user_id, sessionId |-> files[f].session_id]

\* a slip: the message is acknowledged whatever processFile did
settleAlwaysAck(threw) == "ack"

\* try { await processFile(...); message.ack() } catch { message.retry() }
settle(threw) == IF threw THEN "retry" ELSE "ack"

\* the response of POST /process
respond(threw) == IF threw THEN 500 ELSE 200

\* the queue calls queue(batch, env): with the first batch, later with the
\* messages for which retry was called
DeliverBatch ==
    /\ ctx.pc = "idle"
    /\ ctx.deliveries < MaxDeliveries
    /\ \E batch \in (IF ctx.deliveries = 0 THEN Batches ELSE {ctx.retried} \ {<<>>}) :
          ctx' = [IdleHandler EXCEPT !.pc = "running", !.caller = "queue",
                                     !.batch = batch,
                                     !.deliveries = ctx.deliveries + 1]
    /\ UNCHANGED <<extVars, memVars, prefs, messages, files, now, reqs, first, second, engine,
                   scored, gen, job, asm>>

\* POST /process with the FileProcessingMessage of a file as its body
PostProcessOf(named) ==
    /\ ctx.pc = "idle"
    /\ ctx.deliveries < MaxDeliveries
    /\ \E f \in named :
          ctx' = [IdleHandler EXCEPT !.pc = "running", !.caller = "fetch",
                                     !.batch = <<f>>,
                                     !.deliveries = ctx.deliveries + 1]
    /\ UNCHANGED <<extVars, memVars, prefs, messages, files, now, reqs, first, second, engine,
                   scored, gen, job, asm>>

\* the body names f1, processed before, or f2
PostProcess == PostProcessOf({"f1", "f2"})

\* for (const message of batch.messages): processFile(message.body, ...) is
\* called, whatever the status of the file is
TakeMessage ==
    /\ ctx.pc = "running"
    /\ ctx.i <= Len(ctx.batch)
    /\ job.pc = "idle"
    /\ job' = [IdleJob EXCEPT !.pc = "markProcessing", !.attempt = ctx.deliveries,
                              !.fileData = FileData(ctx.batch[ctx.i])]
    /\ UNCHANGED <<extVars, memVars, prefs, messages, files, now, reqs, first, second, engine,
                   scored, gen, ctx, asm>>

\* the message is settled with what processFile did (the error it threw, ""
\* when it returned), and the loop goes on with the next message; after the
\* last message the handler returns; the queue delivers again the messages
\* retry was called for
Settled(outcome, again) ==
    LET entry == [message |-> ctx.batch[ctx.i], outcome |-> outcome,
                  error |-> job.error, status |->
                      files[job.fileData.fileId].processing_status]
    IN  [ctx EXCEPT !.settled = Append(@, entry),
                    !.retried = IF again THEN Append(@, ctx.batch[ctx.i]) ELSE @,
                    !.i = @ + 1,
                    !.pc = IF ctx.i = Len(ctx.batch) THEN "idle" ELSE "running"]

\* message.ack() after processFile returned, message.retry() in the catch
AckOrRetry ==
    /\ ctx.pc = "running"
    /\ ctx.caller = "queue"
    /\ job.pc \in {"done", "thrown"}
    /\ ctx' = Settled(settle(job.pc = "thrown"), settle(job.pc = "thrown") = "retry")
    /\ job' = IdleJob
    /\ UNCHANGED <<extVars, memVars, prefs, messages, files, now, reqs, first, second, engine,
                   scored, gen, asm>>

\* POST /process answers { success: true }, or 500 'Processing failed'
Respond ==
    /\ ctx.pc = "running"
    /\ ctx.caller = "fetch"
    /\ job.pc \in {"done", "thrown"}
    /\ ctx' = Settled(respond(job.pc = "thrown"), FALSE)
    /\ job' = IdleJob
    /\ UNCHANGED <<extVars, memVars, prefs, messages, files, now, reqs, first, second, engine,
                   scored, gen, asm>>

EmbedPlainText == EmbedTextWith(PlainAnswers)

InitQueue ==
    /\ prefs = [u \in UserIds |-> EmptyObject]
    /\ messages = NoMessages
    /\ files = FilesTable
    /\ now = 0
    /\ reqs = <<>>
    /\ first = NoCall
    /\ second = NoCall
    /\ engine = [session |-> "s1", userQuery |-> Str("hi"), fileIds |-> <<>>]
    /\ scored = NoLayers
    /\ memory = ProcessedMemory
    /\ embeddings = ProcessedEmbeddings
    /\ gen = NoCall
    /\ job = IdleJob
    /\ ctx = IdleHandler
    /\ asm = NoCall
    /\ storage = StoredObjects
    /\ queue = <<>>
    /\ upload = NoCall
    /\ hook = NoCall

NextQueue ==
    \/ DeliverBatch
    \/ PostProcess
    \/ TakeMessage
    \/ MarkProcessing
    \/ GetObject
    \/ Extract
    \/ EmbedPlainText
    \/ MarkCompleted
    \/ StoreEmbedding
    \/ StoreInMemory
    \/ MarkFailed
    \/ AckOrRetry
    \/ Respond

SpecQueue == InitQueue /\ [][NextQueue]_vars

\* ------------------------------------------------------- POST /files/upload

\* 50 * 1024 * 1024
MaxFileSize == 52428800

\* the files of a form: a small one, one of exactly 50MB, one a byte larger
SubmittedFiles ==
    { [name |-> "n.txt", type |-> "text/plain", size |-> 2048],
      [name |-> "edge.pdf", type |-> "application/pdf", size |-> MaxFileSize],
      [name |-> "big.mp4", type |-> "video/mp4", size |-> MaxFileSize + 1] }

\* formData.getAll('files'): none, one or two files
Submissions ==
    {<<>>} \cup {<<a>> : a \in SubmittedFiles}
           \cup {<<a, b>> : a \in SubmittedFiles, b \in SubmittedFiles}

\* generateFileId: what crypto.randomUUID() gives, call by call
NewFileIds == <<"u1", "u2">>

\* a slip: a file of exactly 50MB is refused too
tooLargeInclusive(file) == file.size >= MaxFileSize

\* if (file.size > 50 * 1024 * 1024)
tooLarge(file) == file.size > MaxFileSize

\* scheduleFileProcessing: it logs 'Scheduled processing for file ...'; the
\* send to the queue is commented out
scheduleFileProcessing(q, fileId, r2Key, fileType) == q

\* the row INSERT INTO files stores
UploadedRow(user, file) ==
    [user_id |-> user.id, session_id |-> user.sessionId, filename |-> file.name,
     file_type |-> file.type, processing_status |-> "pending", contentLen |-> -1,
     embeddings_generated |-> FALSE]

\* the entries of uploadResults; a field the entry does not have is ""
ErrorEntry(file, error) ==
    [filename |-> file.name, error |-> error, fileId |-> "", status |-> "",
     processingStatus |-> ""]
UploadedEntry(file, fileId) ==
    [filename |-> file.name, error |-> "", fileId |-> fileId, status |-> "uploaded",
     processingStatus |-> "pending"]

\* uploadResults.push(entry), and the loop goes on; generated keeps the id
\* generateFileId gave for the file, "" when it was not called
Pushed(entry, fileId) ==
    [upload EXCEPT !.results = Append(@, entry),
                   !.generated = Append(@, fileId),
                   !.i = @ + 1]

\* the request arrives; without files it is answered 400
ReceiveUpload ==
    /\ ~upload.made
    /\ \E sid \in Sessions, submitted \in Submissions :
          upload' = [made |-> TRUE, user |-> User(sid), files |-> submitted, i |-> 1,
                     results |-> <<>>, generated |-> <<>>,
                     pc |-> IF Len(submitted) = 0 THEN "answered" ELSE "loop",
                     answer |-> IF Len(submitted) = 0
                                THEN [status |-> 400, error |-> "No files provided"]
                                ELSE [status |-> 0, error |-> ""]]
    /\ UNCHANGED <<memVars, callVars, prefs, messages, files, now, reqs, first, second,
                   engine, scored, storage, queue, hook>>

\* one turn of for (const file of files): the size check, then the put to
\* the bucket, the insert of the row and scheduleFileProcessing in a try
\* whose catch pushes 'Upload failed'
UploadFile ==
    /\ upload.made
    /\ upload.pc = "loop"
    /\ upload.i <= Len(upload.files)
    /\ LET file == upload.files[upload.i] IN
       IF tooLarge(file)
       THEN /\ upload' = Pushed(ErrorEntry(file, "File too large (max 50MB)"), "")
            /\ UNCHANGED <<storage, files, queue>>
       ELSE \E putOk, insertOk \in BOOLEAN :
               LET fileId == NewFileIds[Len(SelectSeq(upload.generated,
                                                     LAMBDA g : g # "")) + 1]
                   stored == putOk /\ insertOk
               IN  /\ storage' = IF putOk THEN storage \cup {fileId} ELSE storage
                   /\ files' = IF stored
                               THEN files @@ (fileId :> UploadedRow(upload.user, file))
                               ELSE files
                   /\ queue' = IF stored
                               THEN scheduleFileProcessing(queue, fileId, fileId, file.type)
                               ELSE queue
                   /\ upload' = Pushed(IF stored THEN UploadedEntry(file, fileId)
                                       ELSE ErrorEntry(file, "Upload failed"), fileId)
    /\ UNCHANGED <<memVars, callVars, prefs, messages, now, reqs, first, second, engine,
                   scored, hook>>

\* return c.json({ success: true, results: uploadResults })
RespondUpload ==
    /\ upload.made
    /\ upload.pc = "loop"
    /\ upload.i > Len(upload.files)
    /\ upload' = [upload EXCEPT !.pc = "answered",
                                !.answer = [status |-> 200, error |-> ""]]
    /\ UNCHANGED <<memVars, callVars, prefs, messages, files, now, reqs, first, second,
                   engine, scored, storage, queue, hook>>

\* POST /process of the worker, its body naming an uploaded file
PostProcessUploaded == PostProcessOf(DOMAIN files \ FileIds)

InitUpload ==
    /\ prefs = [u \in UserIds |-> EmptyObject]
    /\ messages = NoMessages
    /\ files = FilesTable
    /\ now = 0
    /\ reqs = <<>>
    /\ first = NoCall
    /\ second = NoCall
    /\ engine = [session |-> "s1", userQuery |-> Str("hi"), fileIds |-> <<>>]
    /\ scored = NoLayers
    /\ memory = ProcessedMemory
    /\ embeddings = ProcessedEmbeddings
    /\ gen = NoCall
    /\ job = IdleJob
    /\ ctx = IdleHandler
    /\ asm = NoCall
    /\ storage = StoredObjects
    /\ queue = <<>>
    /\ upload = NoCall
    /\ hook = NoCall

\* what the code does once a request is in: the turns of the upload loop and
\* the steps of processFile
RunsOn ==
    \/ UploadFile
    \/ RespondUpload
    \/ TakeMessage
    \/ MarkProcessing
    \/ GetObject
    \/ Extract
    \/ EmbedPlainText
    \/ MarkCompleted
    \/ StoreEmbedding
    \/ StoreInMemory
    \/ MarkFailed
    \/ Respond

NextUpload ==
    \/ ReceiveUpload
    \/ PostProcessUploaded
    \/ RunsOn

SpecUpload == InitUpload /\ [][NextUpload]_vars

\* a handler that was called runs to its end; nobody has to send a request
SpecUploadLive == SpecUpload /\ WF_vars(RunsOn)

\* ------------------------------------- the file routes: status, list, download

\* a slip: the row is looked up by its id alone
selectFileById(fileId, user) ==
    IF fileId \in DOMAIN files THEN {fileId} ELSE {}

\* SELECT * FROM files WHERE id = ? AND user_id = ?, .first(): the row, or none
selectFile(fileId, user) ==
    IF fileId \in DOMAIN files /\ files[fileId].user_id = user.id THEN {fileId} ELSE {}

\* SELECT ... FROM files WHERE user_id = ? ... LIMIT 50
listFiles(user) == {f \in DOMAIN files : files[f].user_id = user.id}

\* the values of the path parameter :fileId: the ids of the rows, and one of no row
FileIdParams == FileIds \cup {"f9"}

\* what a file route or a build answered: the status, and the files whose
\* metadata or content the answer holds
FileAnswer(route, user, asked, status, returned) ==
    [made |-> TRUE, route |-> route, user |-> user, asked |-> asked,
     answer |-> [status |-> status, files |-> returned]]

\* GET /files/:fileId/status
GetStatus ==
    /\ \E sid \in Sessions, fileId \in FileIdParams :
          LET result == selectFile(fileId, User(sid)) IN
          ctx' = IF result = {}
                 THEN FileAnswer("GET /:fileId/status", User(sid), <<fileId>>, 404, {})
                 ELSE FileAnswer("GET /:fileId/status", User(sid), <<fileId>>, 200, result)
    /\ UNCHANGED <<prefs, messages, files, now, reqs, first, second, engine, scored,
                   memVars, gen, job, asm, extVars>>

\* GET /files/list
GetList ==
    /\ \E sid \in Sessions :
          ctx' = FileAnswer("GET /list", User(sid), <<>>, 200, listFiles(User(sid)))
    /\ UNCHANGED <<prefs, messages, files, now, reqs, first, second, engine, scored,
                   memVars, gen, job, asm, extVars>>

\* GET /files/:fileId/download: 404 without the row, 404 without the object
\* under the key of the row, else the body of the object
Download ==
    /\ \E sid \in Sessions, fileId \in FileIdParams :
          LET fileRecord == selectFile(fileId, User(sid)) IN
          ctx' = IF fileRecord = {} \/ fileRecord \cap storage = {}
                 THEN FileAnswer("GET /:fileId/download", User(sid), <<fileId>>, 404, {})
                 ELSE FileAnswer("GET /:fileId/download", User(sid), <<fileId>>, 200,
                                 fileRecord)
    /\ UNCHANGED <<prefs, messages, files, now, reqs, first, second, engine, scored,
                   memVars, gen, job, asm, extVars>>

\* buildContextWindow with file ids the requester chose: the file context of
\* the Knowledge layer
FileContext ==
    /\ \E sid \in Sessions, fileIds \in FileLists, fails \in {{}, {"getFileContext"}} :
          LET layer == buildKnowledgeLayer(User(sid), Str("hi"), fileIds, fails, now) IN
          ctx' = FileAnswer("buildKnowledgeLayer", User(sid), fileIds, 200,
                            layer.data.fileContext)
    /\ UNCHANGED <<prefs, messages, files, now, reqs, first, second, engine, scored,
                   memVars, gen, job, asm, extVars>>

\* the tables and the bucket the routes are called on: an object of the
\* bucket may be gone, f2 may be processed or not
InitFiles ==
    /\ prefs = [u \in UserIds |-> EmptyObject]
    /\ messages = NoMessages
    /\ files \in {FilesTable,
                  [FilesTable EXCEPT !["f2"].processing_status = "completed",
                                     !["f2"].contentLen = 900]}
    /\ now = 0
    /\ reqs = <<>>
    /\ first = NoCall
    /\ second = NoCall
    /\ engine = [session |-> "s1", userQuery |-> Str("hi"), fileIds |-> <<>>]
    /\ scored = NoLayers
    /\ memory = ProcessedMemory
    /\ embeddings = ProcessedEmbeddings
    /\ gen = NoCall
    /\ job = NoCall
    /\ ctx = NoCall
    /\ asm = NoCall
    /\ storage \in SUBSET StoredObjects
    /\ queue = <<>>
    /\ upload = NoCall
    /\ hook = NoCall

NextFiles ==
    \/ GetStatus
    \/ GetList
    \/ Download
    \/ FileContext

SpecFiles == InitFiles /\ [][NextFiles]_vars

\* ------------------------------------------- the page's hook: useFileUpload

\* useState(false), useState(0), useState(null): the hook before any call;
\* intervals and timeouts count the timers that are set and not cleared or
\* fired, calls the calls of uploadFiles so far
IdleHook ==
    [made |-> FALSE, calls |-> 0, inFlight |-> FALSE, uploading |-> FALSE,
     progress |-> 0, error |-> "", intervals |-> 0, timeouts |-> 0, rested |-> FALSE]

\* uploadFiles(files) up to its await: setUploading(true), setError(null),
\* setProgress(0), setInterval(..., 200)
StartUpload ==
    /\ ~hook.inFlight
    /\ hook.calls < MaxUploads
    /\ hook' = [hook EXCEPT !.made = TRUE, !.calls = @ + 1, !.inFlight = TRUE,
                            !.uploading = TRUE, !.error = "", !.progress = 0,
                            !.intervals = @ + 1, !.rested = FALSE]
    /\ UNCHANGED <<memVars, callVars, prefs, messages, files, now, reqs, first, second,
                   engine, scored, storage, queue, upload>>

\* an interval fires: setProgress(prev => Math.min(prev + 10, 90))
IntervalFires ==
    /\ hook.intervals > 0
    /\ hook' = [hook EXCEPT !.progress = Min(@ + 10, 90)]
    /\ UNCHANGED <<memVars, callVars, prefs, messages, files, now, reqs, first, second,
                   engine, scored, storage, queue, upload>>

\* api.uploadFiles resolves: clearInterval, setProgress(100), and the
\* finally block: setUploading(false), setTimeout(..., 1000)
UploadResolves ==
    /\ hook.inFlight
    /\ hook' = [hook EXCEPT !.inFlight = FALSE, !.intervals = @ - 1,
                            !.progress = 100, !.uploading = FALSE,
                            !.timeouts = @ + 1]
    /\ UNCHANGED <<memVars, callVars, prefs, messages, files, now, reqs, first, second,
                   engine, scored, storage, queue, upload>>

\* api.uploadFiles rejects: the catch sets the error and rethrows, then the
\* finally block; clearInterval is not reached
UploadRejects ==
    /\ hook.inFlight
    /\ hook' = [hook EXCEPT !.inFlight = FALSE, !.error = "Upload failed",
                            !.uploading = FALSE, !.timeouts = @ + 1]
    /\ UNCHANGED <<memVars, callVars, prefs, messages, files, now, reqs, first, second,
                   engine, scored, storage, queue, upload>>

\* a timeout of a finally block fires: setProgress(0); the hook is at rest
\* when no call is in flight and no timeout is left
TimeoutFires ==
    /\ hook.timeouts > 0
    /\ hook' = [hook EXCEPT !.progress = 0, !.timeouts = @ - 1,
                            !.rested = ~hook.inFlight /\ hook.timeouts = 1]
    /\ UNCHANGED <<memVars, callVars, prefs, messages, files, now, reqs, first, second,
                   engine, scored, storage, queue, upload>>

InitHook ==
    /\ prefs = [u \in UserIds |-> EmptyObject]
    /\ messages = NoMessages
    /\ files = FilesTable
    /\ now = 0
    /\ reqs = <<>>
    /\ first = NoCall
    /\ second = NoCall
    /\ engine = [session |-> "s1", userQuery |-> Str("hi"), fileIds |-> <<>>]
    /\ scored = NoLayers
    /\ memory = ProcessedMemory
    /\ embeddings = ProcessedEmbeddings
    /\ gen = NoCall
    /\ job = NoCall
    /\ ctx = NoCall
    /\ asm = NoCall
    /\ storage = StoredObjects
    /\ queue = <<>>
    /\ upload = NoCall
    /\ hook = IdleHook

NextHook ==
    \/ StartUpload
    \/ IntervalFires
    \/ UploadResolves
    \/ UploadRejects
    \/ TimeoutFires

SpecHook == InitHook /\ [][NextHook]_vars

\* ------------------------ the memory routes: search, reset, clear conversation

\* rows of table memory in the other tiers its memory_type column names:
\* a long-term and a short-term item of s1's user, a long-term item of s2's
PersistedRows ==
    << MemoryRow("anon_s1", "s1", "long", "deadline is friday", "", 9),
       MemoryRow("anon_s1", "s1", "short", "hello", "", 5),
       MemoryRow("anon_s2", "s2", "long", "budget approved", "", 9) >>

\* the tables the routes are called on: what processFile stored, and with it
\* none, some or all of the rows of the other tiers
StoredMemory ==
    { ProcessedMemory,
      ProcessedMemory \o SubSeq(PersistedRows, 1, 1),
      ProcessedMemory \o SubSeq(PersistedRows, 1, 2),
      ProcessedMemory \o PersistedRows }

\* the search helpers of the tiers: each returns []
searchShortTermMemory(query, limit) == <<>>
searchMediumTermMemory(query, limit) == <<>>
searchAllMemory(query, limit) == <<>>

searchMemory(query, memoryType, limit) ==
    CASE memoryType = "short" -> searchShortTermMemory(query, limit)
      [] memoryType = "medium" -> searchMediumTermMemory(query, limit)
      [] memoryType = "long" -> searchLongTermMemory(query)
      [] OTHER -> searchAllMemory(query, limit)

\* the clearing helpers: each has an empty body, table memory stays as it is
clearShortTermMemory(table, user) == table
clearMediumTermMemory(table, user) == table
clearAllMemory(table, user) == table

clearContext(table, user) ==
    clearMediumTermMemory(clearShortTermMemory(table, user), user)

resetContext(table, user, preserveMemory) ==
    IF preserveMemory THEN clearContext(table, user) ELSE clearAllMemory(table, user)

\* the bodies of POST /memory/search: memoryType defaults to 'all' and limit
\* to 10 when the body has none; "" is a body with no query
SearchBodies ==
    [query : {"", "deadline is friday", "budget approved", "file_processed f1"},
     memoryType : {"all", "short", "medium", "long", "archive"},
     limit : {10, 1}]

\* POST /context/memory/search
SearchMemory ==
    /\ \E sid \in Sessions, body \in SearchBodies :
          ctx' = [made |-> TRUE, route |-> "POST /memory/search", user |-> User(sid),
                  body |-> body, before |-> memory,
                  answer |->
                      IF body.query = ""
                      THEN [status |-> 400, results |-> <<>>, total |-> 0]
                      ELSE LET results == searchMemory(body.query, body.memoryType,
                                                       body.limit)
                           IN  [status |-> 200, results |-> results,
                                total |-> Len(results)]]
    /\ UNCHANGED <<extVars, prefs, messages, files, now, reqs, first, second, engine, scored,
                   memVars, gen, job, asm>>

\* POST /context/reset
ResetContext ==
    /\ \E sid \in Sessions, preserveMemory \in BOOLEAN :
          /\ memory' = resetContext(memory, User(sid), preserveMemory)
          /\ ctx' = [made |-> TRUE, route |-> "POST /reset", user |-> User(sid),
                     body |-> [preserveMemory |-> preserveMemory], before |-> memory,
                     answer |-> [status |-> 200, success |-> TRUE,
                                 memoryPreserved |-> preserveMemory]]
    /\ UNCHANGED <<extVars, prefs, messages, files, now, reqs, first, second, engine, scored,
                   embeddings, gen, job, asm>>

\* DELETE /chat/clear: the user's messages of the session are deleted, then
\* clearContext
ClearChat ==
    /\ \E sid \in Sessions :
          /\ messages' = [messages EXCEPT ![sid] = <<>>]
          /\ memory' = clearContext(memory, User(sid))
          /\ ctx' = [made |-> TRUE, route |-> "DELETE /clear", user |-> User(sid),
                     before |-> memory,
                     answer |-> [status |-> 200, success |-> TRUE]]
    /\ UNCHANGED <<extVars, prefs, files, now, reqs, first, second, engine, scored,
                   embeddings, gen, job, asm>>

\* parseInt(text): blanks are skipped, then a sign, then the decimal digits
\* up to the first other character; NaN when there is no digit
DigitOf(ch) ==
    CASE ch = "0" -> 0 [] ch = "1" -> 1 [] ch = "2" -> 2 [] ch = "3" -> 3
      [] ch = "4" -> 4 [] ch = "5" -> 5 [] ch = "6" -> 6 [] ch = "7" -> 7
      [] ch = "8" -> 8 [] ch = "9" -> 9 [] OTHER -> -1

RECURSIVE digitsValue(_, _)
digitsValue(text, acc) ==
    IF Len(text) = 0 \/ DigitOf(SubSeq(text, 1, 1)) < 0 THEN acc
    ELSE digitsValue(SubSeq(text, 2, Len(text)), 10 * acc + DigitOf(SubSeq(text, 1, 1)))

parseInt(text) ==
    LET t == trimStart(text)
        signed == Len(t) > 0 /\ SubSeq(t, 1, 1) \in {"-", "+"}
        digits == IF signed THEN SubSeq(t, 2, Len(t)) ELSE t
    IN  IF Len(digits) = 0 \/ DigitOf(SubSeq(digits, 1, 1)) < 0 THEN NaN
        ELSE Num((IF signed /\ SubSeq(t, 1, 1) = "-" THEN -1 ELSE 1)
                 * digitsValue(digits, 0))

\* x < n and x > n of JavaScript: false when x is NaN
lessThan(x, n) == x.kind = "number" /\ x.value < n
greaterThan(x, n) == x.kind = "number" /\ x.value > n

\* if (layerId < 1 || layerId > 11)
invalidLayerId(layerId) == lessThan(layerId, 1) \/ greaterThan(layerId, 11)

\* the values of the path parameter :layerId
LayerIdParams == {"1", "7", "11", "0", "12", "-3", "abc", "7abc", "5.7", " 4"}

\* getStoredLayer gives null, so getLayerData gives { error: 'Layer not found' }
getLayerData(layerId) == [error |-> "Layer not found"]

\* GET /context/layers/:layerId
GetLayer ==
    /\ \E sid \in Sessions, param \in LayerIdParams :
          LET layerId == parseInt(param) IN
          ctx' = [made |-> TRUE, route |-> "GET /layers/:layerId", user |-> User(sid),
                  param |-> param, before |-> memory,
                  answer |->
                      IF invalidLayerId(layerId)
                      THEN [status |-> 400, error |-> "Invalid layer ID (1-11)",
                            calls |-> <<>>]
                      ELSE [status |-> 200, error |-> getLayerData(layerId).error,
                            calls |-> <<[method |-> "getLayerData",
                                         layerId |-> layerId]>>]]
    /\ UNCHANGED <<prefs, messages, files, now, reqs, first, second, engine, scored,
                   memVars, gen, job, asm, extVars>>

\* PUT /context/layers/:layerId: the body is parsed first, a body that is no
\* JSON is answered 500
PutLayer ==
    /\ \E sid \in Sessions, param \in LayerIdParams, bodyOk \in BOOLEAN :
          LET layerId == parseInt(param) IN
          ctx' = [made |-> TRUE, route |-> "PUT /layers/:layerId", user |-> User(sid),
                  param |-> param, before |-> memory,
                  answer |->
                      IF ~bodyOk
                      THEN [status |-> 500, error |-> "Failed to update layer",
                            calls |-> <<>>]
                      ELSE IF invalidLayerId(layerId)
                      THEN [status |-> 400, error |-> "Invalid layer ID (1-11)",
                            calls |-> <<>>]
                      ELSE [status |-> 200, error |-> "",
                            calls |-> <<[method |-> "updateLayerConfig",
                                         layerId |-> layerId]>>]]
    /\ UNCHANGED <<prefs, messages, files, now, reqs, first, second, engine, scored,
                   memVars, gen, job, asm, extVars>>

InitMemory ==
    /\ prefs = [u \in UserIds |-> EmptyObject]
    /\ messages \in {NoMessages, [NoMessages EXCEPT !["s1"] = EarlierTurn]}
    /\ files = FilesTable
    /\ now = 0
    /\ reqs = <<>>
    /\ first = NoCall
    /\ second = NoCall
    /\ engine = [session |-> "s1", userQuery |-> Str("hi"), fileIds |-> <<>>]
    /\ scored = NoLayers
    /\ memory \in StoredMemory
    /\ embeddings = ProcessedEmbeddings
    /\ gen = NoCall
    /\ job = NoCall
    /\ ctx = NoCall
    /\ asm = NoCall
    /\ storage = StoredObjects
    /\ queue = <<>>
    /\ upload = NoCall
    /\ hook = NoCall

NextMemory ==
    \/ SearchMemory
    \/ ResetContext
    \/ ClearChat
    \/ GetLayer
    \/ PutLayer

SpecMemory == InitMemory /\ [][NextMemory]_vars

\* -------------------------------------- properties of calculateRelevanceScore

\* the aggregate as the sum over the layers of score times weight, over 11,
\* with weight 1 for an active layer and 0.1 for an inactive one
WeightedAggregate(layers) ==
    SumOver(1..11, [i \in 1..11 |->
        layers[i].relevanceScore * (IF layers[i].status = "active" THEN 10 ELSE 1)])

\* C7: the aggregate relevanceScore is the weighted sum over 11 and lies in
\* [0, 1] for every combination of statuses and scores in [0, 1].
C7_AggregateInUnitInterval ==
    /\ scored.relevanceScore = WeightedAggregate(scored.layers)
    /\ scored.relevanceScore >= 0
    /\ scored.relevanceScore <= 1100

\* all layers but one active with score 1.0: the aggregate is just below 1.0
C7_Witness ==
    /\ Cardinality({i \in 1..11 : scored.layers[i].status = "active"
                                   /\ scored.layers[i].relevanceScore = 10}) = 10
    /\ scored.relevanceScore > 1000

Activated(layers, i) == [layers EXCEPT ![i] = [@ EXCEPT !.status = "active"]]

\* C8: making one inactive layer with positive relevance active, all else
\* fixed, never decreases the aggregate relevanceScore.
C8_MonotoneInActivation ==
    \A i \in 1..11 :
        (scored.layers[i].status = "inactive" /\ scored.layers[i].relevanceScore > 0) =>
            calculateRelevanceScore(Activated(scored.layers, i)) >= scored.relevanceScore

\* an inactive layer with positive relevance whose activation raises the
\* aggregate, in a list that differs from the built one
C8_Witness ==
    /\ scored.layers # scored.base
    /\ \E i \in 1..11 :
          /\ scored.layers[i].status = "inactive"
          /\ scored.layers[i].relevanceScore > 0
          /\ calculateRelevanceScore(Activated(scored.layers, i)) > scored.relevanceScore

\* ------------------------------------------------ properties of the routes

MessageRequests == {r \in Requests : reqs[r].pc # "idle" /\ reqs[r].route = "message"}

\* constraints.operational.maxTokens, the token ceiling the engine declares
MaxContextTokens == 4096

HasWindow(q) == q.pc \in {"generate", "storeAssistant", "commit"}

\* C2: a window whose layers total more tokens than the budget is never
\* handed on: the window buildContextWindow hands to generation has
\* tokenCount <= budget, and optimizeContext answers with a size <= targetSize,
\* or an error is raised.
C2_WithinBudgetOrError ==
    \A r \in Requests :
        LET q == reqs[r] IN
        q.pc # "idle" =>
            /\ (q.route = "message" /\ HasWindow(q)) => q.window.tokenCount <= MaxContextTokens
            /\ (q.route = "optimize" /\ q.pc = "answered") =>
                  (q.status # 200 \/ q.result.hasOptimizedSize)

\* between the start of buildContextWindow and the return of updateContextState
InSection(q) == HasWindow(q)

\* C3: the assembly+generation sections of two requests of one session never
\* overlap.
C3_SessionSerialized ==
    \A r1, r2 \in MessageRequests :
        (r1 # r2 /\ reqs[r1].session = reqs[r2].session) =>
            ~(InSection(reqs[r1]) /\ InSection(reqs[r2]))

StepsInOrder == <<"user_stored", "window_built", "reply_generated",
                  "assistant_stored", "state_committed">>

Did(q, step) == \E i \in DOMAIN q.trace : q.trace[i] = step
Stored(r, type) ==
    \E i \in DOMAIN messages[reqs[r].session] :
        /\ messages[reqs[r].session][i].req = r
        /\ messages[reqs[r].session][i].type = type

\* C5: the steps of one POST /message occur in the order user message stored,
\* window built, reply generated, assistant message stored, state committed;
\* when assembly or generation fails the answer is 500, no assistant message
\* is stored and no state commit runs.
C5_StepsInOrder ==
    \A r \in MessageRequests :
        LET q == reqs[r] IN
        /\ Len(q.trace) <= 5
        /\ q.trace = SubSeq(StepsInOrder, 1, Len(q.trace))
        /\ Did(q, "user_stored") <=> Stored(r, "user")
        /\ Did(q, "assistant_stored") <=> Stored(r, "assistant")
        /\ q.status = 200 <=> Did(q, "state_committed")
        /\ q.failedAt \in {"build", "generate"} =>
              /\ q.pc = "answered" /\ q.status = 500
              /\ ~Stored(r, "assistant")
              /\ ~Did(q, "state_committed")

MandatoryLayers == {1, 9, 11}

\* C11: the mandatory layers 1 (Instructions), 9 (Constraints) and 11
\* (UserQuery) are in every window produced, with status active, and a
\* window fitted to a budget (POST /optimize with targetSize 50) ends within
\* the budget with these three layers preserved.
C11_MandatoryLayersKept ==
    \A r \in Requests :
        LET q == reqs[r] IN
        q.pc # "idle" =>
            /\ (q.route = "message" /\ HasWindow(q)) =>
                  \A i \in MandatoryLayers :
                      /\ i \in q.window.activeLayers
                      /\ q.window.layers[i].id = i
                      /\ q.window.layers[i].status = "active"
            /\ (q.route = "optimize" /\ q.pc = "answered" /\ q.status = 200) =>
                  (q.result.hasOptimizedSize /\ q.result.hasPreservedContent)

\* one request failed in assembly, another ran all five steps
C5_Witness ==
    \E r, p \in MessageRequests :
        /\ reqs[r].failedAt = "build" /\ reqs[r].status = 500
        /\ reqs[p].status = 200 /\ reqs[p].trace = StepsInOrder

\* ---------------------------------------- properties of buildContextWindow

DirectCalls == {c \in {first, second} : c.made}
StringQuery == engine.userQuery.kind = "string"
Statuses == {"active", "inactive", "processing"}

\* C1: for every session state, string query and attachment list, and
\* whatever external calls fail, buildContextWindow returns a window whose
\* layers are exactly 11, with ids 1, 2, ..., 11 in that order, each with a
\* status.
C1_ElevenLayers ==
    \A c \in DirectCalls :
        StringQuery =>
            /\ ~Threw(c.result)
            /\ Len(c.result.layers) = 11
            /\ \A i \in 1..11 : /\ c.result.layers[i].id = i
                                /\ c.result.layers[i].status \in Statuses

\* every database query of the build throws, and the layers without data
\* (Knowledge, Task/Goal State, Tools, Examples) are in the window
C1_Witness ==
    /\ first.made
    /\ StringQuery
    /\ first.fails = ExternalCalls
    /\ ~Threw(first.result)
    /\ Len(first.result.layers) = 11
    /\ first.result.layers[4].status = "inactive"

\* the layer that makes an external call
BuilderOf(call) ==
    IF call \in {"getFileContext", "getTotalDocumentCount"} THEN 3 ELSE 2

\* C4: when the external calls of one builder fail, the window is still
\* returned and that layer is in it with status inactive.
C4_FailedLayerInactive ==
    \A c \in DirectCalls :
        (StringQuery /\ c.fails # {}) =>
            /\ ~Threw(c.result)
            /\ \A call \in c.fails : c.result.layers[BuilderOf(call)].status = "inactive"

SameStatusAndTokens(v, w) ==
    /\ Len(v.layers) = Len(w.layers)
    /\ \A i \in DOMAIN v.layers :
          /\ v.layers[i].status = w.layers[i].status
          /\ v.layers[i].tokenCount = w.layers[i].tokenCount

BothReturned == first.made /\ second.made /\ ~Threw(first.result) /\ ~Threw(second.result)

HiScenario ==
    /\ first.made
    /\ messages[engine.session] = <<>>
    /\ engine.fileIds = <<>>
    /\ engine.userQuery = Str("hi")

HiLayers ==
    /\ ~Threw(first.result)
    /\ first.result.layers[11].data.complexity = "simple"
    /\ first.result.layers[3].status = "inactive"
    /\ first.result.layers[5].status = "active"
    /\ first.result.layers[5].data.shortTerm = <<>>
    /\ first.result.layers[5].data.mediumTerm = <<>>
    /\ first.result.layers[5].data.longTerm = <<>>

\* C9, as stated: in the scenario the UserQuery layer is simple, Knowledge is
\* inactive, Memory is active with three empty tiers, and the aggregate
\* relevanceScore is below 0.5.
C9_HiBelowHalf == HiScenario => (HiLayers /\ first.result.relevanceScore < 550)

\* C9, amended: ... and the aggregate relevanceScore is 5.57 / 11, about
\* 0.506, which is not below 0.5.
C9_HiScenario == HiScenario => (HiLayers /\ first.result.relevanceScore = 557)

C9_Witness == HiScenario /\ HiLayers /\ first.fails = {}

\* C10: the Knowledge layer is active exactly when retrieval returned a
\* document or attachments were given; its relevanceScore is 0.9 when active
\* and 0.1 when inactive; with one file with extracted content attached and
\* the query "summarize this" it is active with relevanceScore >= 0.9.
C10_Knowledge ==
    \A c \in DirectCalls :
        ~Threw(c.result) =>
            LET k == c.result.layers[3] IN
            /\ k.status = "active" <=>
                  (Len(k.data.retrievedDocuments) >= 1 \/ Len(engine.fileIds) > 0)
            /\ k.status \in {"active", "inactive"}
            /\ k.relevanceScore = (IF k.status = "active" THEN 9 ELSE 1)
            /\ (engine.userQuery = Str("summarize this") /\ engine.fileIds = <<"f1">>)
                  => (k.status = "active" /\ k.relevanceScore >= 9)

\* the scenario: f1 is the user's file, its content was extracted and read
C10_Witness ==
    /\ first.made
    /\ engine.userQuery = Str("summarize this")
    /\ engine.fileIds = <<"f1">>
    /\ files["f1"].contentLen > 0
    /\ first.result.layers[3].data.fileContext = {"f1"}
    /\ first.result.layers[3].status = "active"

\* ----------------------------------------- properties of generateResponse

\* the model generateResponse routes: options.model || 'gpt-4'
RequestedModel == IF gen.model = "" THEN "gpt-4" ELSE gen.model

\* the backend the claim assigns to a model name, by its prefix
PrefixBackend(model) ==
    IF SubSeq(model, 1, 4) = "gpt-" THEN "openai"
    ELSE IF SubSeq(model, 1, 7) = "claude-" THEN "anthropic"
    ELSE "none"

\* C12: generateResponse calls exactly one backend, chosen by the prefix of
\* the model name alone (gpt- is OpenAI, claude- is Anthropic); any other
\* name fails with Unsupported model and no backend is called; when the
\* chosen backend fails the error reaches the caller and the other backend
\* is not tried.
C12_OneBackendByPrefix ==
    (gen.made /\ gen.op = "generateResponse") =>
        LET chosen == PrefixBackend(RequestedModel) IN
        IF chosen = "none"
        THEN /\ Threw(gen.result)
             /\ gen.result.message = "Unsupported model"
             /\ gen.result.calls = <<>>
        ELSE /\ gen.result.calls = <<chosen>>
             /\ Threw(gen.result) <=> ~gen.replies[chosen].ok
             /\ ~Threw(gen.result) =>
                   /\ gen.result.backend = chosen
                   /\ gen.result.contentLen = gen.replies[chosen].contentLen

\* the routed backend failed while the other one would have answered
C12_Witness ==
    /\ gen.made
    /\ gen.op = "generateResponse"
    /\ gen.model = "claude-3-opus"
    /\ ~gen.replies["anthropic"].ok
    /\ gen.replies["openai"].ok
    /\ Threw(gen.result)
    /\ gen.result.calls = <<"anthropic">>

\* C15: the confidence generateResponse returns is the sum of its additive
\* terms capped at 1, and lies in [0, 1] for every relevance in [0, 1], every
\* number of active layers 0..11, every response length and model name.
C15_ConfidenceInUnitInterval ==
    (gen.made /\ gen.op = "generateResponse" /\ ~Threw(gen.result)) =>
        /\ gen.result.confidence >= 0
        /\ gen.result.confidence <= 11000
        /\ gen.result.confidence >= 5500 + gen.contextWindow.relevanceScore * 3
              \/ gen.result.confidence = 11000

\* all terms at their largest: the sum is 1.3 and the confidence is 1.0
C15_Witness ==
    /\ gen.made
    /\ gen.op = "generateResponse"
    /\ ~Threw(gen.result)
    /\ gen.contextWindow.relevanceScore = 1100
    /\ Cardinality(gen.contextWindow.activeLayers) = 11
    /\ gen.result.contentLen > 1000
    /\ gen.result.model = "gpt-4-0613"
    /\ gen.result.confidence = 11000

\* ------------------------------------- properties of the embedding services

EmbeddingCall == gen.made /\ gen.op \in {"generateEmbedding", "generateSingleEmbedding"}

\* C13: embedding generation tries Voyage first and OpenAI second; OpenAI is
\* called only after Voyage failed, no provider is called twice, the first
\* success is the result, and the call throws only when both failed.
C13_ProvidersInOrder ==
    EmbeddingCall =>
        LET calls == gen.result.calls IN
        /\ calls \in {<<"voyage">>, <<"voyage", "openai">>}
        /\ Len(calls) = 2 <=> ~gen.replies["voyage"].ok
        /\ Threw(gen.result) <=>
              (~gen.replies["voyage"].ok /\ ~gen.replies["openai"].ok)
        /\ ~Threw(gen.result) =>
              gen.result.vector = gen.replies[calls[Len(calls)]].embedding

\* Voyage failed and the vector of OpenAI came back
C13_Witness ==
    /\ EmbeddingCall
    /\ gen.op = "generateSingleEmbedding"
    /\ ~gen.replies["voyage"].ok
    /\ gen.result.calls = <<"voyage", "openai">>
    /\ ~Threw(gen.result)
    /\ gen.result.vector = <<Num(3), Num(4)>>

\* C14: a vector of an embedding provider is returned or stored only after
\* validation (non-empty, finite numbers, magnitude in (0, 100]); an invalid
\* vector of the primary provider is rejected and the secondary is called.
C14_OnlyValidVectorsAccepted ==
    /\ \A i \in DOMAIN embeddings : validateEmbedding(embeddings[i].embedding_vector)
    /\ \A i \in DOMAIN job.results : validateEmbedding(job.results[i].vector)
    /\ \A i \in DOMAIN job.log :
          (job.log[i].primary.ok /\ ~validateEmbedding(job.log[i].primary.embedding))
              => job.log[i].calls = <<"voyage", "openai">>

\* --------------------------------------------- properties of the assembly

\* C16: buildContextWindow only reads: a call leaves every persisted table
\* (user_preferences, messages, files, memory, embeddings) as it was.
C16_BuildOnlyReads ==
    [][(first' # first \/ second' # second) =>
          /\ prefs' = prefs
          /\ messages' = messages
          /\ files' = files
          /\ memory' = memory
          /\ embeddings' = embeddings]_vars

\* a call in which every query ran, over stored messages, files and memory
C16_Witness ==
    /\ first.made
    /\ first.fails = {}
    /\ ~Threw(first.result)
    /\ engine.fileIds = <<"f3", "f1">>
    /\ first.result.layers[2].data.interactionHistory = 2
    /\ first.result.layers[3].data.fileContext = {"f1", "f3"}
    /\ messages["s1"] = EarlierTurn
    /\ memory = ProcessedMemory

\* C19: within one assembly a layer is being built and then pushed as active
\* or as inactive; a pushed layer is never changed or built again, and every
\* layer of the window buildContextWindow returns is active or inactive,
\* never processing.
C19_LayerStatesTerminal ==
    [][/\ \A i \in 1..Len(asm.layers) :
             Len(asm'.layers) >= i /\ asm'.layers[i] = asm.layers[i]
       /\ \A i \in 1..Len(asm'.layers) :
             asm'.layers[i].status \in {"active", "inactive"}
       /\ asm'.made =>
             /\ asm'.window.layers = asm'.layers
             /\ \A i \in 1..11 :
                   asm'.window.layers[i].status \in {"active", "inactive"}]_vars

\* a returned window with layers of both final states, built while time went on
C19_Witness ==
    /\ asm.made
    /\ Len(asm.window.layers) = 11
    /\ asm.window.layers[6].status = "inactive"
    /\ asm.window.layers[9].status = "active"
    /\ asm.window.layers[3].status = "active"
    /\ asm.window.lastUpdate = 1

\* the status a lookup that found n entries gives the layer
StatusOfMatches(n) == IF n > 0 THEN "active" ELSE "inactive"

ToolsAndExamplesByMatches(w) ==
    /\ w.layers[6].status = StatusOfMatches(Len(w.layers[6].data.active))
    /\ w.layers[7].status = StatusOfMatches(w.layers[7].data.total)

TierRows(table, userId, tier) ==
    SelectSeq(table, LAMBDA row : row.user_id = userId /\ row.memory_type = tier)

C18_ResetClearsShortAndMedium ==
    (/\ ctx.made
     /\ \/ ctx.route = "DELETE /clear"
        \/ ctx.route = "POST /reset" /\ ctx.body.preserveMemory)
    => /\ TierRows(memory, ctx.user.id, "short") = <<>>
       /\ TierRows(memory, ctx.user.id, "medium") = <<>>
       /\ TierRows(memory, ctx.user.id, "long") = TierRows(ctx.before, ctx.user.id, "long")

\* ------------------------------------------- properties of the query analysis

\* the query of the assembly and what its User Query layer expects
UserQueryPushed == Len(asm.layers) >= 11
ExpectedResponseType == asm.layers[11].data.expectedResponseType
HasCue(cues) == \E cue \in cues : includes(engine.userQuery.text, cue)

\* C21 as stated: expectedResponseType is 'text' for every query that
\* contains none of the cues "code", "list" and "explain".
C21_TextWithoutThreeCues ==
    (UserQueryPushed /\ ~HasCue({"code", "list", "explain"}))
    => ExpectedResponseType = "text"

\* C21, amended: expectedResponseType is derived from six cues, looked for
\* in this order: 'code' with "code" or "example", else 'structured' with
\* "list" or "bullet", else 'markdown' with "explain" or "how", and 'text'
\* exactly for the queries that contain none of the six.
C21_ResponseTypeBySixCues ==
    UserQueryPushed =>
        /\ HasCue({"code", "example"}) => ExpectedResponseType = "code"
        /\ (HasCue({"list", "bullet"}) /\ ~HasCue({"code", "example"}))
              => ExpectedResponseType = "structured"
        /\ (HasCue({"explain", "how"}) /\ ~HasCue({"code", "example", "list", "bullet"}))
              => ExpectedResponseType = "markdown"
        /\ ExpectedResponseType = "text"
              <=> ~HasCue({"code", "example", "list", "bullet", "explain", "how"})

\* a query with "how" and none of the three cues, answered as markdown
C21_Witness ==
    /\ UserQueryPushed
    /\ engine.userQuery = Str("how are you")
    /\ ExpectedResponseType = "markdown"

\* ------------------------------------------------ properties of the worker

\* the status of the file the attempt is about
StatusOfJob == files[job.fileData.fileId].processing_status

\* C22: at the end of every processFile attempt the status of the file is
\* 'completed' when every step succeeded and 'failed' when a step threw; no
\* attempt ends with the status left at 'pending' or 'processing'.
C22_AttemptEndsCompletedOrFailed ==
    /\ job.pc = "done" => StatusOfJob = "completed"
    /\ job.pc = "thrown" => StatusOfJob = "failed"

\* C23: 'completed' is truthful and stable: it is in the files table only
\* when the attempt has stored all its embedding rows and its memory record
\* (not while the attempt still has them to store), and a status that is
\* 'completed' never changes to 'failed'.
C23_CompletedTruthfulAndStable ==
    [][/\ job'.pc = "storeEmbeddings"
            => files'[job'.fileData.fileId].processing_status # "completed"
       /\ \A f \in DOMAIN files :
             files[f].processing_status = "completed"
                 => files'[f].processing_status # "failed"]_vars

\* the rows of a file and a chunk in table embeddings, the records of a file
\* in table memory
RowsOf(f, i) ==
    {k \in 1..Len(embeddings) :
        embeddings[k].content_id = f /\ embeddings[k].chunk_index = i}
RecordsOf(f) ==
    {k \in 1..Len(memory) : memory[k].content = "file_processed " \o f}

\* C24: after any sequence of attempts for a file the embeddings table holds
\* at most one row per (file id, chunk index) and the memory table at most
\* one 'file_processed' record of the file.
C24_AtMostOneRowPerChunk ==
    \A f \in DOMAIN files :
        /\ \A i \in 0..2 : Cardinality(RowsOf(f, i)) <= 1
        /\ Cardinality(RecordsOf(f)) <= 1

\* C25: the queue handler settles every message of a batch exactly once, in
\* the order of the batch: with ack exactly when processFile returned for it,
\* with retry when it threw, and a message that fails does not keep the
\* messages after it from being processed.
C25_EachMessageSettledOnce ==
    ctx.caller = "queue" =>
        /\ Len(ctx.settled) = ctx.i - 1
        /\ ctx.pc = "idle" => Len(ctx.settled) = Len(ctx.batch)
        /\ \A k \in 1..Len(ctx.settled) :
              /\ ctx.settled[k].message = ctx.batch[k]
              /\ ctx.settled[k].outcome \in {"ack", "retry"}
              /\ ctx.settled[k].outcome = "ack" <=> ctx.settled[k].error = ""
        /\ ctx.retried = SelectSeq([k \in 1..Len(ctx.settled) |->
                                      IF ctx.settled[k].outcome = "retry"
                                      THEN ctx.settled[k].message ELSE ""],
                                  LAMBDA m : m # "")

\* a batch whose first message failed and whose second was processed
C25_Witness ==
    /\ ctx.caller = "queue"
    /\ ctx.pc = "idle"
    /\ ctx.batch = <<"f2", "f1">>
    /\ ctx.settled[1].outcome = "retry"
    /\ ctx.settled[2].outcome = "ack"
    /\ files["f1"].processing_status = "completed"

\* ------------------------------------------- properties of the upload route

\* POST /upload has reported the file as uploaded, processing pending
ReportedPending(f) ==
    /\ upload.made
    /\ upload.pc = "answered"
    /\ \E k \in 1..Len(upload.results) :
          /\ upload.results[k].fileId = f
          /\ upload.results[k].status = "uploaded"
          /\ upload.results[k].processingStatus = "pending"

\* the file was handed to the processor and its attempt came to an end
Processed(f) ==
    /\ f \in DOMAIN files
    /\ files[f].processing_status \in {"completed", "failed"}

\* C26: every file POST /upload reports as 'uploaded' with processingStatus
\* 'pending' is eventually handed to the file processor: its
\* processing_status eventually becomes 'completed' or 'failed'.
C26_UploadedEventuallyProcessed ==
    \A f \in {NewFileIds[1], NewFileIds[2]} : ReportedPending(f) ~> Processed(f)

\* the keys and the rows the request added
NewObjects == storage \ StoredObjects
NewRows == DOMAIN files \ FileIds

\* C27: POST /upload handles each file on its own: a file above 50MB gets
\* the 'File too large' entry and is written neither to the bucket nor to
\* table files, a file whose write to the bucket or to the table fails gets
\* 'Upload failed', the loop goes on after both, and the results are one
\* entry per submitted file, in the order of submission.
C27_EachFileOnItsOwn ==
    upload.made =>
        /\ Len(upload.results) = upload.i - 1
        /\ upload.answer.status = 200 => Len(upload.results) = Len(upload.files)
        /\ \A k \in 1..Len(upload.results) :
              LET file == upload.files[k]
                  entry == upload.results[k]
                  fileId == upload.generated[k]
              IN  /\ entry.filename = file.name
                  /\ entry.error = "File too large (max 50MB)" <=> file.size > MaxFileSize
                  /\ file.size > MaxFileSize => fileId = ""
                  /\ entry.error = "" =>
                        /\ entry.status = "uploaded"
                        /\ entry.fileId = fileId
                        /\ fileId \in NewObjects
                        /\ fileId \in NewRows
                        /\ files[fileId].filename = file.name
                        /\ files[fileId].user_id = upload.user.id
                  /\ entry.error = "Upload failed" => fileId \notin NewRows
        /\ NewObjects \subseteq {upload.generated[k] : k \in 1..Len(upload.generated)}
        /\ NewRows \subseteq {upload.results[k].fileId : k \in 1..Len(upload.results)}

\* a form whose first file is too large and whose second is stored
C27_Witness ==
    /\ upload.made
    /\ upload.answer.status = 200
    /\ Len(upload.files) = 2
    /\ upload.results[1].error = "File too large (max 50MB)"
    /\ upload.results[2].status = "uploaded"
    /\ upload.files[2].size = MaxFileSize
    /\ NewRows = {"u1"}

\* ------------------------------------------- properties of the layer routes

\* the path parameters that are an integer in 1..11
LayerIds == {"1", "2", "3", "4", "5", "6", "7", "8", "9", "10", "11"}

\* C29: GET and PUT /layers/:layerId answer 400 'Invalid layer ID (1-11)'
\* and do not call the context engine whenever the path parameter is not an
\* integer in 1..11, non-numeric values included (a PUT whose body is no
\* JSON is answered 500 before the id is looked at).
C29_OnlyLayerIdsReachEngine ==
    (/\ ctx.made
     /\ ctx.route \in {"GET /layers/:layerId", "PUT /layers/:layerId"}
     /\ ctx.param \notin LayerIds)
    => /\ ctx.answer.calls = <<>>
       /\ \/ ctx.answer.status = 400 /\ ctx.answer.error = "Invalid layer ID (1-11)"
          \/ ctx.route = "PUT /layers/:layerId" /\ ctx.answer.status = 500

\* ------------------------------------------- properties of the file routes

\* the rows of other users among the ids the requester supplied
OthersAsked ==
    {ctx.asked[k] : k \in {j \in 1..Len(ctx.asked) :
                              /\ ctx.asked[j] \in DOMAIN files
                              /\ files[ctx.asked[j]].user_id # ctx.user.id}}

\* C28: file data never crosses users: the status, download and list routes
\* and the file context of the Knowledge layer return only files whose
\* user_id is the requester's id, whatever ids the requester supplies; the id
\* of another user's file is answered as not found or adds no file context.
C28_FilesStayWithTheirUser ==
    (ctx.made /\ ctx.route \in {"GET /:fileId/status", "GET /:fileId/download",
                                "GET /list", "buildKnowledgeLayer"})
    => /\ \A f \in ctx.answer.files : files[f].user_id = ctx.user.id
       /\ ctx.answer.files \cap OthersAsked = {}
       /\ (OthersAsked # {} /\ ctx.route # "buildKnowledgeLayer")
             => ctx.answer.status = 404

\* the user of s1 asks for the status of f2, a file of the user of s2
C28_Witness ==
    /\ ctx.made
    /\ ctx.route = "GET /:fileId/status"
    /\ ctx.user = User("s1")
    /\ ctx.asked = <<"f2">>
    /\ files["f2"].user_id = "anon_s2"
    /\ ctx.answer.status = 404

\* ------------------------------------------- properties of the upload hook

\* C30: after an uploadFiles call settles, resolved or rejected, uploading
\* is false and the progress timer of the call is no longer running; once
\* the reset has fired the progress is 0 and stays 0 until the next upload
\* starts.
C30_HookAtRestAfterUpload ==
    (hook.made /\ ~hook.inFlight) =>
        /\ ~hook.uploading
        /\ hook.intervals = 0
        /\ hook.rested => hook.progress = 0

====
